---- MODULE Spec2Model ----
(***************************************************************************)
(* Verification model of the mockly voice pipeline:                        *)
(*   - LiveTranscriptionWriter (services/workflow/live_transcription.py)   *)
(*   - the Deepgram synthesis sessions (services/workflow/tts.py)          *)
(*                                                                         *)
(* Units.  One element of an audio buffer stands for one block of 96000    *)
(* bytes, i.e. one second of 48 kHz 16-bit mono PCM; the accumulator's     *)
(* timers count whole seconds; word times are counted in half              *)
(* milliseconds, so that round(x, 3) on seconds is a real rounding.        *)
(***************************************************************************)
EXTENDS Integers, Sequences, FiniteSets, TLC

\* ------------------------------------------------------------------ bounds
MaxBlocks == 4          \* audio blocks appended in one session
MaxChunk == 2           \* blocks in one add_audio_chunk call
update_interval == 1    \* self.update_interval of the session (seconds)
min_audio_bytes == 2    \* self.min_audio_bytes of the session (blocks)
MaxWords == 2           \* words in one recognition response
MaxFrames == 3          \* audio frames the provider delivers in one synthesis session
MaxUnits == 2           \* spoken units the text source yields in one session
MaxText == 1            \* non-binary frames the provider delivers in one session
IdleTicks == 1          \* the receive loops' idle window (10.0 s, 15.0 s), in ticks
MaxTokens == 4          \* fragments token_iter delivers in one call of sentence_chunks
min_chars == 4          \* min_chars of the call
first_flush_ms == 1     \* first_flush_ms of the call, in ticks
MaxChars == 4           \* characters of a text given to sanitize_for_tts
MaxCalls == 2           \* calls of sanitize_for_tts with one text
MaxTextChunks == 1      \* texts given to add_text_chunk by a caller of the writer alone

\* ------------------------------------------------------------- small helpers
Min(a, b) == IF a < b THEN a ELSE b

Max(a, b) == IF a > b THEN a ELSE b

Range(s) == {s[i] : i \in 1..Len(s)}

IsPrefix(s, t) == Len(s) <= Len(t) /\ SubSeq(t, 1, Len(s)) = s

Tasks == {"rx", "tx"}

\* A file: `json` says whether its content is a whole JSON document
\* ("complete"), a truncated one ("partial") or whether there is no file.
FileOf(j, words, stamp, count) ==
    [json |-> j, transcription |-> words, last_updated |-> stamp, word_count |-> count]

Absent == FileOf("none", <<>>, 0, 0)

Partial == FileOf("partial", <<>>, 0, 0)

\* --------------------------------------------------------------- variables
VARIABLES
    audio_buffer,             \* self._audio_buffer: sequence of block ids
    total_audio_duration_ms,  \* self._total_audio_duration_ms
    all_words,                \* self._all_words
    time_since_last,          \* now - self._last_update_time, saturating
    should_stop,              \* self._should_stop
    pending_text_chunks,      \* self._pending_text_chunks: ids of the texts added
    out_file,                 \* content of the file at output_path
    tmp_file,                 \* content of the file at output_path.with_suffix(".tmp")
    write_count,              \* number of _write_json_file calls (stands for last_updated)
    alive,                    \* FALSE once the writer process has been killed
    wtask,                    \* per calling task: what it awaits inside the writer
    submissions,              \* slices posted to the recognition provider, in order
    next_block,               \* id of the next audio block produced
    \* ---- one synthesis session (tts.py)
    variant,                  \* "raw": stream_deepgram_tts_raw, "sdk": stream_deepgram_tts
    spc,                      \* where the sender task is
    sres,                     \* how the sender task ended: ok, send_error, source_error, cancelled
    pending_chars,            \* sender's pending_chars
    since_flush,              \* ticks since the sender's last_flush, saturating
    unit_no,                  \* spoken units taken from `sentences` so far
    wire,                     \* frames sent to the provider, in order
    closed,                   \* the connection is closed (sdk: closed["flag"])
    queue,                    \* frames that arrived and the receive loop has not taken
    cur,                      \* the audio frame the receive loop is handling, or 0
    forwarded,                \* audio frames yielded to the caller, in order
    rpc,                      \* where the generator (receive loop and cleanup) is
    exit_cause,               \* why the receive loop ended
    cleanup,                  \* what the raw generator's finally block attempted, in order
    texts,                    \* non-binary frames delivered so far: the audio block each embeds, or 0
    capture,                  \* what the LiveTTSCapture event log of the session holds
    waited,                   \* ticks since the current wait_for began, saturating
    idle,                     \* ticks since last_audio, saturating
    \* ---- one call of sentence_chunks (speech.py)
    token_text,               \* the fragments taken from token_iter so far, concatenated
    total_tokens_received,    \* total_tokens_received
    buffer,                   \* "".join(buffer)
    since_first,              \* ticks since first_started_at, saturating; -1: it is None
    first_chunk_sent,         \* first_chunk_sent
    units,                    \* the units yielded so far, each with the rule that flushed it
    cpc,                      \* where the generator is: "iter", "done"; "off": no call
    \* ---- calls of sanitize_for_tts (speech.py)
    san_text,                 \* text: the argument of the latest call
    san_result,               \* what the latest call gave its caller
    calls                     \* calls made so far

wvars == <<audio_buffer, total_audio_duration_ms,
           all_words, time_since_last, should_stop, pending_text_chunks, out_file, tmp_file, write_count,
           alive, wtask, submissions>>

svars == <<variant, spc, sres, pending_chars, since_flush, unit_no, wire, closed, queue,
           cur, forwarded, rpc, exit_cause, cleanup, texts, capture, waited, idle>>

cvars == <<token_text, total_tokens_received, buffer, since_first, first_chunk_sent,
           units, cpc>>

tvars == <<san_text, san_result, calls>>

vars == <<wvars, next_block, svars, cvars, tvars>>

\* ------------------------------------------------------- tts._pcm_duration_ms
\* linear16, one channel: 96000 bytes (one block) last 1000 ms at 48 kHz.
BlockMs == 1000

PcmDurationMs(nblocks) == nblocks * BlockMs

\* ----------------------------------------------- the recognition provider
\* A provider word object: its text and its start and end in half-milliseconds,
\* relative to the submitted sub-clip.  The text names the sub-clip (by the id
\* of its first block), the position of the word in the response and the
\* provider's own start and end, so that a published word can be traced back.
ProviderWord(slice, k, n) ==
    LET s == n + 2 * (k - 1)
    IN  [word |-> <<slice[1], k, s, s + 1>>, start |-> s, end |-> s + 1]

WordsData(slice, n) == [k \in 1..n |-> ProviderWord(slice, k, n)]

\* Everything a POST of `slice` can end in.
Responses(slice) ==
    {[kind |-> k, words |-> <<>>] :
        k \in {"exception", "cancelled", "non200", "no_channels", "no_alternatives",
               "empty_transcript", "no_words", "bad_words"}}
    \cup {[kind |-> "ok", words |-> WordsData(slice, n)] : n \in 1..MaxWords}

\* round(x, 3) of a time in seconds, on half-milliseconds: a whole number of
\* milliseconds stays, a half is rounded to the even millisecond.
Round3(t) ==
    IF t % 2 = 0 THEN t
    ELSE IF (t \div 2) % 2 = 0 THEN 2 * (t \div 2) ELSE 2 * ((t \div 2) + 1)

\* Mutant of GetWordTimestamps: a transcript that comes without word objects
\* is turned into one untimed word.
GetWordTimestamps_Untimed(resp) ==
    IF resp.kind = "no_words"
    THEN <<[word |-> <<0, 0, 0, 0>>, start_time |-> 0, end_time |-> 0]>>
    ELSE IF resp.kind # "ok" THEN <<>>
    ELSE [i \in 1..Len(resp.words) |->
            [word |-> resp.words[i].word,
             start_time |-> Round3(resp.words[i].start),
             end_time |-> Round3(resp.words[i].end)]]

\* LiveTranscriptionWriter._get_word_timestamps: the word list parsed from a
\* response; every failure gives the empty list.
GetWordTimestamps(resp) ==
    IF resp.kind # "ok" THEN <<>>
    ELSE [i \in 1..Len(resp.words) |->
            [word |-> resp.words[i].word,
             start_time |-> Round3(resp.words[i].start),
             end_time |-> Round3(resp.words[i].end)]]

\* ------------------------------------------------------------ the snapshot
\* Mutant of Snapshot: word_count is taken from the session list as it was
\* before the merge.
Snapshot_StaleCount(words, stamp) == FileOf("complete", words, stamp, Len(all_words))

\* output_data of _write_json_file (lines 340-344), fully serialised.
Snapshot(words, stamp) == FileOf("complete", words, stamp, Len(words))

PublishOutcomes ==
    {"ok", "dump_fails", "replace_fails",
     "killed_after_open", "killed_in_dump", "killed_before_replace"}

\* Mutant of WriteJsonFile: the snapshot is written straight to the published
\* path, with no temporary file and no rename.
WriteJsonFile_InPlace(words, stamp, outcome) ==
    LET snap == Snapshot(words, stamp)
    IN  [tmp |-> tmp_file,
         out |-> IF outcome \in {"ok", "replace_fails", "killed_before_replace"}
                 THEN snap ELSE Partial,
         alive |-> outcome \in {"ok", "dump_fails", "replace_fails"}]

\* Mutant of WriteJsonFile: the exception handler removes the published file.
WriteJsonFile_Unlink(words, stamp, outcome) ==
    LET snap == Snapshot(words, stamp)
    IN  [tmp |-> CASE outcome = "ok" -> Absent
                   [] outcome \in {"dump_fails", "killed_after_open", "killed_in_dump"} -> Partial
                   [] OTHER -> snap,
         out |-> CASE outcome = "ok" -> snap
                   [] outcome \in {"dump_fails", "replace_fails"} -> Absent
                   [] OTHER -> out_file,
         alive |-> outcome \in {"ok", "dump_fails", "replace_fails"}]

\* LiveTranscriptionWriter._write_json_file: the files and the process after
\* one call that ends as `outcome` says.  open(temp, "w") truncates the
\* temporary file, json.dump fills it, replace() renames it over the
\* published path; an exception is logged and swallowed.
WriteJsonFile(words, stamp, outcome) ==
    LET snap == Snapshot(words, stamp)
    IN  [tmp |-> CASE outcome = "ok" -> Absent
                   [] outcome \in {"dump_fails", "killed_after_open", "killed_in_dump"} -> Partial
                   [] OTHER -> snap,
         out |-> IF outcome = "ok" THEN snap ELSE out_file,
         alive |-> outcome \in {"ok", "dump_fails", "replace_fails"}]

\* A task that is not inside the writer; `op` is the writer call it made last,
\* `lock` says whether the task holds self._lock.
Idle(op) == [pc |-> "idle", slice |-> <<>>, op |-> op, res |-> "none", lock |-> FALSE]

\* Task t is back from the call `op`, whose recognition request ended as `kind`.
Returned(op, kind) ==
    [pc |-> "idle", slice |-> <<>>, op |-> op, res |-> kind, lock |-> FALSE]

\* `with self._lock` can be entered: no task holds the lock.
LockFree == \A t \in Tasks : ~wtask[t].lock

\* ------------------------------------------------------------------- Init
\* The state after LiveTranscriptionWriter.__init__, whose first publish
\* (the empty snapshot) has succeeded.
WInit ==
    /\ audio_buffer = <<>>
    /\ total_audio_duration_ms = 0
    /\ all_words = <<>>
    /\ time_since_last \in 0..update_interval
    /\ should_stop = FALSE
    /\ pending_text_chunks = <<>>
    /\ out_file = Snapshot(<<>>, 1)
    /\ tmp_file = Absent
    /\ write_count = 1
    /\ alive = TRUE
    /\ wtask = [t \in Tasks |-> Idle("none")]
    /\ submissions = <<>>
    /\ next_block = 1

\* No synthesis session: the writer is driven directly by its caller.
\* The event log of a LiveTTSCapture (captions.py), as far as the order of
\* its lines matters: `first` is the event of its first line, `speaks` the
\* number of speak events (speak writes self._index and then adds 1 to it,
\* so they carry 0, 1, ..., speaks - 1), `closes` the number of close
\* events, `late` the kinds of the events written after a close event.
NoCapture == [first |-> "none", speaks |-> 0, closes |-> 0, late |-> {}]

\* LiveTTSCapture.__init__ (lines 22-43) writes the session event.
CaptureInit == [first |-> "session", speaks |-> 0, closes |-> 0, late |-> {}]

\* _write (lines 48-56) appends one line, for an event of kind `kind`.
CaptureWrite(c, kind) ==
    [first |-> IF c.first = "none" THEN kind ELSE c.first,
     speaks |-> IF kind = "speak" THEN c.speaks + 1 ELSE c.speaks,
     closes |-> IF kind = "close" THEN c.closes + 1 ELSE c.closes,
     late |-> IF c.closes > 0 THEN c.late \cup {kind} ELSE c.late]

RECURSIVE CaptureWrites(_, _)
CaptureWrites(c, kinds) ==
    IF kinds = <<>> THEN c ELSE CaptureWrites(CaptureWrite(c, Head(kinds)), Tail(kinds))

NoSession ==
    /\ variant = "none"
    /\ spc = "done" /\ sres = "none" /\ pending_chars = 0 /\ since_flush = 0
    /\ unit_no = 0 /\ wire = <<>> /\ closed = TRUE /\ queue = <<>> /\ cur = 0
    /\ forwarded = <<>> /\ rpc = "done" /\ exit_cause = "none" /\ cleanup = <<>>
    /\ texts = <<>> /\ waited = 0 /\ idle = 0
    /\ capture = NoCapture

\* No call of sentence_chunks is being followed.
NoChunker ==
    /\ token_text = <<>> /\ total_tokens_received = 0 /\ buffer = <<>>
    /\ since_first = -1 /\ first_chunk_sent = FALSE /\ units = <<>> /\ cpc = "off"

\* What a call gives its caller: a returned string, or an exception.
Return(value) == [raised |-> FALSE, value |-> value]

Raise == [raised |-> TRUE, value |-> <<>>]

\* No call of sanitize_for_tts is being followed.
NoSanitize == san_text = <<>> /\ san_result = Return(<<>>) /\ calls = 0

\* ------------------------------------------------------- add_audio_chunk
\* add_audio_chunk(chunk, _pcm_duration_ms(len(chunk))) by task t.
AddAudioChunkOp(t, chunk) ==
    /\ wtask[t].pc = "idle"
    /\ LockFree
    /\ wtask' = [wtask EXCEPT ![t] = Idle("add_audio_chunk")]
    /\ audio_buffer' = audio_buffer \o chunk
    /\ total_audio_duration_ms' = total_audio_duration_ms + PcmDurationMs(Len(chunk))
    /\ UNCHANGED <<all_words, time_since_last,
                   should_stop, pending_text_chunks, out_file, tmp_file, write_count, alive, submissions>>

\* ---------------------------------------------------------- add_text_chunk
\* Mutant of AddTextChunkOp: the text is published as a word of the session.
AddTextChunkOp_Published(t, text) ==
    /\ wtask[t].pc = "idle"
    /\ LockFree
    /\ wtask' = [wtask EXCEPT ![t] = Idle("add_text_chunk")]
    /\ pending_text_chunks' = Append(pending_text_chunks, text)
    /\ all_words' = Append(all_words, [word |-> <<text, 0, 0, 0>>, start_time |-> 0,
                                       end_time |-> 0])
    /\ out_file' = Snapshot(all_words', write_count + 1)
    /\ write_count' = write_count + 1
    /\ UNCHANGED <<audio_buffer, total_audio_duration_ms, time_since_last,
                   should_stop, tmp_file, alive, submissions>>

\* add_text_chunk(text) by task t (lines 110-118).
AddTextChunkOp(t, text) ==
    /\ wtask[t].pc = "idle"
    /\ LockFree
    /\ wtask' = [wtask EXCEPT ![t] = Idle("add_text_chunk")]
    /\ pending_text_chunks' = Append(pending_text_chunks, text)
    /\ UNCHANGED <<audio_buffer, total_audio_duration_ms, all_words, time_since_last,
                   should_stop, out_file, tmp_file, write_count, alive, submissions>>

\* ------------------------------------------------------------ maybe_update
\* Mutant of ShouldUpdate: one threshold is enough.
ShouldUpdate_Or(time_since, buffer_size) ==
    time_since >= update_interval \/ buffer_size >= min_audio_bytes

\* The gate of maybe_update (lines 132-138).
ShouldUpdate(time_since, buffer_size) ==
    time_since >= update_interval /\ buffer_size >= min_audio_bytes

\* Mutant of StartTranscribe: the request is awaited inside `with self._lock`.
StartTranscribe_Locked(t, data, op) ==
    IF data = <<>>
    THEN /\ wtask' = [wtask EXCEPT ![t] = Idle(op)]
         /\ UNCHANGED submissions
    ELSE /\ wtask' = [wtask EXCEPT ![t] = [pc |-> "await", slice |-> data, op |-> op,
                                           res |-> "none", lock |-> TRUE]]
         /\ submissions' = Append(submissions, [slice |-> data, op |-> op])

\* _transcribe_and_update up to its await: nothing is posted for empty data.
\* The lock was released before the call ("Transcribe outside the lock").
StartTranscribe(t, data, op) ==
    IF data = <<>>
    THEN /\ wtask' = [wtask EXCEPT ![t] = Idle(op)]
         /\ UNCHANGED submissions
    ELSE /\ wtask' = [wtask EXCEPT ![t] = [pc |-> "await", slice |-> data, op |-> op,
                                           res |-> "none", lock |-> FALSE]]
         /\ submissions' = Append(submissions, [slice |-> data, op |-> op])

\* maybe_update up to its first suspension, entered with `buf` in the
\* audio buffer: the gate and, when it passes, the drain-and-reset of the
\* buffer and the start of the recognition call.
MaybeUpdateFrom(t, buf) ==
    /\ wtask[t].pc = "idle"
    /\ LockFree
    /\ IF ~ShouldUpdate(time_since_last, Len(buf))
       THEN /\ wtask' = [wtask EXCEPT ![t] = Idle("maybe_update")]
            /\ audio_buffer' = buf
            /\ UNCHANGED <<time_since_last, submissions>>
       ELSE /\ audio_buffer' = <<>>
            /\ time_since_last' = 0
            /\ StartTranscribe(t, buf, "maybe_update")
    /\ UNCHANGED <<all_words, should_stop, pending_text_chunks, out_file, tmp_file, write_count, alive>>

MaybeUpdateOp(t) ==
    MaybeUpdateFrom(t, audio_buffer) /\ UNCHANGED total_audio_duration_ms

\* Mutant of AddThenMaybeUpdateOp: the frame is not appended to the buffer.
AddThenMaybeUpdateOp_Dropped(t, chunk) ==
    /\ MaybeUpdateFrom(t, audio_buffer)
    /\ total_audio_duration_ms' = total_audio_duration_ms + PcmDurationMs(Len(chunk))

\* The receive loops' handling of one frame up to the first suspension
\* (tts.py lines 249-252 and 437-440): add_audio_chunk, then maybe_update.
AddThenMaybeUpdateOp(t, chunk) ==
    /\ MaybeUpdateFrom(t, audio_buffer \o chunk)
    /\ total_audio_duration_ms' = total_audio_duration_ms + PcmDurationMs(Len(chunk))

\* ---------------------------------------------------------------- finalize
\* Mutant of FinalizeOp: the final flush goes through the gate of maybe_update.
FinalizeOp_Gated(t) ==
    /\ wtask[t].pc = "idle"
    /\ LockFree
    /\ IF ShouldUpdate(time_since_last, Len(audio_buffer))
       THEN audio_buffer' = <<>> /\ StartTranscribe(t, audio_buffer, "finalize")
       ELSE /\ wtask' = [wtask EXCEPT ![t] = Idle("finalize")]
            /\ UNCHANGED <<audio_buffer, submissions>>
    /\ UNCHANGED <<total_audio_duration_ms, all_words,
                   time_since_last, should_stop, pending_text_chunks, out_file, tmp_file, write_count, alive>>

\* Mutant of FinalizeOp: the slice is taken and the buffer is not reset.
FinalizeOp_NoReset(t) ==
    /\ wtask[t].pc = "idle"
    /\ LockFree
    /\ audio_buffer' = audio_buffer
    /\ StartTranscribe(t, audio_buffer, "finalize")
    /\ UNCHANGED <<total_audio_duration_ms, all_words,
                   time_since_last, should_stop, pending_text_chunks, out_file, tmp_file, write_count, alive>>

\* Mutant of FinalizeOp: the final submission restarts the update interval.
FinalizeOp_StampsTime(t) ==
    /\ wtask[t].pc = "idle"
    /\ LockFree
    /\ audio_buffer' = <<>>
    /\ time_since_last' = 0
    /\ StartTranscribe(t, audio_buffer, "finalize")
    /\ UNCHANGED <<total_audio_duration_ms, all_words,
                   should_stop, pending_text_chunks, out_file, tmp_file, write_count, alive>>

\* finalize up to its first suspension.
FinalizeOp(t) ==
    /\ wtask[t].pc = "idle"
    /\ LockFree
    /\ audio_buffer' = <<>>
    /\ StartTranscribe(t, audio_buffer, "finalize")
    /\ UNCHANGED <<total_audio_duration_ms, all_words,
                   time_since_last, should_stop, pending_text_chunks, out_file, tmp_file, write_count, alive>>

\* ------------------------------------------- _transcribe_and_update, resumed
\* Mutant of Merge: the session list is replaced by the new words.
Merge_Replace(words, outcome) ==
    IF words = <<>>
    THEN UNCHANGED <<all_words, out_file, tmp_file, write_count, alive>>
    ELSE LET fs == WriteJsonFile(words, write_count + 1, outcome)
         IN  /\ all_words' = words
             /\ write_count' = write_count + 1
             /\ out_file' = fs.out
             /\ tmp_file' = fs.tmp
             /\ alive' = fs.alive

\* Mutant of Merge: an empty word list is merged and published as well.
Merge_AlwaysPublish(words, outcome) ==
    LET merged == all_words \o words
        fs == WriteJsonFile(merged, write_count + 1, outcome)
    IN  /\ all_words' = merged
        /\ write_count' = write_count + 1
        /\ out_file' = fs.out
        /\ tmp_file' = fs.tmp
        /\ alive' = fs.alive

\* The merge of _transcribe_and_update (lines 178-187): no words, no merge
\* and no publish; otherwise extend the session list and publish it.
Merge(words, outcome) ==
    IF words = <<>>
    THEN UNCHANGED <<all_words, out_file, tmp_file, write_count, alive>>
    ELSE LET merged == all_words \o words
             fs == WriteJsonFile(merged, write_count + 1, outcome)
         IN  /\ LockFree
             /\ all_words' = merged
             /\ write_count' = write_count + 1
             /\ out_file' = fs.out
             /\ tmp_file' = fs.tmp
             /\ alive' = fs.alive

\* The recognition call of task t returns and the call that awaited it runs to
\* its end.
TranscribeReturnsOp(t, resp, outcome) ==
    /\ wtask[t].pc = "await"
    /\ Merge(GetWordTimestamps(resp), outcome)
    /\ wtask' = [wtask EXCEPT ![t] = Returned(wtask[t].op, resp.kind)]
    /\ UNCHANGED <<audio_buffer,
                   total_audio_duration_ms, time_since_last, should_stop, pending_text_chunks, submissions>>

\* ------------------------------------------------------------------- close
CloseOp(t) ==
    /\ wtask[t].pc = "idle"
    /\ wtask' = [wtask EXCEPT ![t] = Idle("close")]
    /\ should_stop' = TRUE
    /\ UNCHANGED <<audio_buffer, pending_text_chunks,
                   total_audio_duration_ms, all_words, time_since_last, out_file,
                   tmp_file, write_count, alive, submissions>>

\* The cleanup blocks of tts.py (lines 77-80, 464-467): the awaited finalize
\* returns and close() follows it without a suspension in between.
FinalizeReturnsThenCloseOp(t, resp, outcome) ==
    /\ wtask[t].pc = "await"
    /\ Merge(GetWordTimestamps(resp), outcome)
    /\ wtask' = [wtask EXCEPT ![t] = Idle("close")]
    /\ should_stop' = TRUE
    /\ UNCHANGED <<audio_buffer, pending_text_chunks, total_audio_duration_ms,
                   time_since_last, submissions>>

\* -------------------------------------------------------------------- time
\* One second passes (time.perf_counter advances).
TickOp ==
    /\ time_since_last' = Min(time_since_last + 1, update_interval)
    /\ UNCHANGED <<audio_buffer,
                   total_audio_duration_ms, all_words, should_stop, pending_text_chunks, out_file, tmp_file,
                   write_count, alive, wtask, submissions>>

\* ------------------------------------------- the writer driven by any caller
AddAudioChunk ==
    /\ alive
    /\ \E n \in 0..MaxChunk :
          /\ next_block + n - 1 <= MaxBlocks
          /\ AddAudioChunkOp("rx", [i \in 1..n |-> next_block + i - 1])
          /\ next_block' = next_block + n
    /\ UNCHANGED svars
    /\ UNCHANGED <<cvars, tvars>>

\* The sender's side records a text it has sent.
AddTextChunk ==
    /\ alive
    /\ Len(pending_text_chunks) < MaxTextChunks
    /\ AddTextChunkOp("tx", Len(pending_text_chunks) + 1)
    /\ UNCHANGED <<next_block, svars>>
    /\ UNCHANGED <<cvars, tvars>>

MaybeUpdate == alive /\ MaybeUpdateOp("rx") /\ UNCHANGED <<next_block, svars>> /\ UNCHANGED <<cvars, tvars>>

Finalize == alive /\ FinalizeOp("tx") /\ UNCHANGED <<next_block, svars>> /\ UNCHANGED <<cvars, tvars>>

TranscribeReturns ==
    /\ alive
    /\ \E t \in Tasks :
          /\ wtask[t].pc = "await"
          /\ \E resp \in Responses(wtask[t].slice) : \E o \in PublishOutcomes :
                TranscribeReturnsOp(t, resp, o)
    /\ UNCHANGED <<next_block, svars>>
    /\ UNCHANGED <<cvars, tvars>>

Close == alive /\ CloseOp("tx") /\ UNCHANGED <<next_block, svars>> /\ UNCHANGED <<cvars, tvars>>

Tick ==
    /\ alive
    /\ time_since_last < update_interval
    /\ TickOp
    /\ UNCHANGED <<next_block, svars>>
    /\ UNCHANGED <<cvars, tvars>>

WNext ==
    \/ AddAudioChunk
    \/ AddTextChunk
    \/ MaybeUpdate
    \/ Finalize
    \/ TranscribeReturns
    \/ Close
    \/ Tick

\* A writer constructed and driven by its caller alone.
Init == WInit /\ NoSession /\ NoChunker /\ NoSanitize

Spec == Init /\ [][WNext]_vars

\* ------------------------------------------------------------ construction
\* The word list an earlier session left in the file at output_path (every
\* session of tts.py constructs its writer on LIVE_TRANSCRIPTION_PATH).
EarlierWords == <<[word |-> <<0, 1, 0, 1>>, start_time |-> 0, end_time |-> 1]>>

\* What the published path can hold when a writer is constructed: nothing,
\* or the last snapshot of an earlier session.
PriorFiles == {Absent, Snapshot(EarlierWords, 0)}

\* Before LiveTranscriptionWriter(...) is called: there is no writer
\* (write_count = 0: _write_json_file has never run).
Unconstructed ==
    /\ audio_buffer = <<>>
    /\ total_audio_duration_ms = 0
    /\ all_words = <<>>
    /\ time_since_last \in 0..update_interval
    /\ should_stop = FALSE
    /\ pending_text_chunks = <<>>
    /\ out_file \in PriorFiles
    /\ tmp_file = Absent
    /\ write_count = 0
    /\ alive = FALSE
    /\ wtask = [t \in Tasks |-> Idle("none")]
    /\ submissions = <<>>
    /\ next_block = 1

\* LiveTranscriptionWriter.__init__ (lines 54-79): the fields are set and
\* _write_json_file([]) is called; a failure of that write is logged inside
\* _write_json_file and the constructor returns normally.
Construct ==
    /\ write_count = 0
    /\ \E outcome \in PublishOutcomes :
          LET fs == WriteJsonFile(<<>>, 1, outcome)
          IN  /\ out_file' = fs.out
              /\ tmp_file' = fs.tmp
              /\ alive' = fs.alive
    /\ write_count' = 1
    /\ wtask' = [wtask EXCEPT !["rx"] = Idle("__init__")]
    /\ UNCHANGED <<audio_buffer, total_audio_duration_ms, all_words, time_since_last,
                   should_stop, pending_text_chunks, submissions>>
    /\ UNCHANGED <<next_block, svars>>
    /\ UNCHANGED <<cvars, tvars>>

LifeNext ==
    \/ Construct
    \/ AddAudioChunk
    \/ AddTextChunk
    \/ MaybeUpdate
    \/ Finalize
    \/ TranscribeReturns
    \/ Close
    \/ Tick

LifeInit == Unconstructed /\ NoSession /\ NoChunker /\ NoSanitize

\* A writer from its construction on, driven by its caller alone.
LifeSpec == LifeInit /\ [][LifeNext]_vars

\* ======================================================================
\* The synthesis sessions: tts.stream_deepgram_tts_raw ("raw") and
\* tts.stream_deepgram_tts ("sdk"), each with its sender task, its receive
\* loop inside the async generator, the provider and the caller.
\* An action runs a task from one suspension point (await, yield) to the
\* next.  The live-transcription writer is enabled and the encoding is
\* linear16 (the configuration defaults), every frame holds one block.
\* ======================================================================
FLUSH_CHARS == 220

FLUSH_MS == 650

Speak(u) == <<"Speak", u>>

FlushFrame == <<"Flush", 0>>

CloseFrame == <<"Close", 0>>

\* len(clean) of the units the text source yields; 0 when nothing is left
\* of a unit after sanitize_for_tts(...).strip().
UnitChars == {0, 110}

\* What the recognition provider and the file system do in a session: one
\* failure and the one-word answers stand for all of Responses, and every
\* publish succeeds (the file system's faults are the subject of Spec).
SessionResponses(slice) ==
    {r \in Responses(slice) : r.kind = "exception" \/ (r.kind = "ok" /\ Len(r.words) = 1)}

InLoop == rpc \in {"recv", "update", "yield"}

SInit ==
    /\ variant \in {"raw", "sdk"}
    /\ spc = "iter" /\ sres = "none" /\ pending_chars = 0 /\ since_flush = 0
    /\ unit_no = 0 /\ wire = <<>> /\ closed = FALSE /\ queue = <<>> /\ cur = 0
    /\ forwarded = <<>> /\ rpc = "recv" /\ exit_cause = "none" /\ cleanup = <<>>
    /\ texts = <<>> /\ waited = 0 /\ idle = 0
    /\ capture = CaptureInit

\* ---------------------------------------------------------------- sender
\* Mutant of FlushDue: a threshold has to be exceeded, not only reached.
FlushDue_Strict(pending, since) == pending > FLUSH_CHARS \/ since * 1000 > FLUSH_MS

\* The condition of _maybe_flush and _maybe_flush_raw; one tick is 1000 ms.
FlushDue(pending, since) == pending >= FLUSH_CHARS \/ since * 1000 >= FLUSH_MS

\* The sender task ends with `result`, having sent `w`.  raw: sender() has
\* nothing but a log line in its finally; the final Flush it may have sent
\* before (the frame `w` has more than the wire) is logged by capture.flush().
\* sdk: the finally block of _send_chunks_via_ws sends Flush and Close
\* (errors suppressed; capture.flush() is skipped when the Flush raises),
\* calls capture.close(), then awaits transcription.finalize() and calls
\* transcription.close().
SenderExit(result, w) ==
    /\ sres' = result
    /\ IF variant = "raw"
       THEN /\ wire' = w
            /\ capture' = CaptureWrites(capture, [i \in 1..(Len(w) - Len(wire)) |-> "flush"])
            /\ spc' = "done"
            /\ UNCHANGED wvars
       ELSE /\ wire' = IF closed THEN w ELSE w \o <<FlushFrame, CloseFrame>>
            /\ capture' = CaptureWrites(capture,
                              (IF closed THEN <<>> ELSE <<"flush">>) \o <<"close">>)
            /\ IF audio_buffer = <<>>
               THEN CloseOp("tx") /\ spc' = "done"
               ELSE FinalizeOp("tx") /\ spc' = "finalizing"

\* Mutant of NextUnit: the iteration does not advance.
NextUnit_Same(n) == n

\* `for sentence in sentences`: the iteration hands out the units in the
\* order the text source produces them; units are numbered from 1.
NextUnit(n) == n + 1

\* Mutant of SpeakFrames: a Speak frame is sent for every unit.
SpeakFrames_Always(len, n) == <<Speak(n)>>

\* _send_sentence and _send_sentence_raw (lines 91-95, 112-116) for unit n,
\* whose text after sanitize_for_tts(...).strip() has len characters.
SpeakFrames(len, n) == IF len = 0 THEN <<>> ELSE <<Speak(n)>>

\* One iteration of the sender's loop: _send_sentence, which hands the text
\* it has sent to add_text_chunk, then _maybe_flush.
\* A send on a closed connection raises.
SenderSendsUnit ==
    /\ spc = "iter"
    /\ unit_no < MaxUnits
    /\ \E len \in UnitChars :
          LET p1 == pending_chars + len
              due == FlushDue(p1, since_flush)
              frames == SpeakFrames(len, NextUnit(unit_no))
                        \o (IF due THEN <<FlushFrame>> ELSE <<>>)
          IN  /\ unit_no' = NextUnit(unit_no)
              /\ IF frames # <<>> /\ closed
                 THEN /\ SenderExit("send_error", wire)
                      /\ UNCHANGED <<pending_chars, since_flush>>
                 ELSE /\ wire' = wire \o frames
                      /\ capture' = CaptureWrites(capture,
                            [i \in 1..Len(frames) |->
                                IF frames[i] = FlushFrame THEN "flush" ELSE "speak"])
                      /\ pending_chars' = IF due THEN 0 ELSE p1
                      /\ since_flush' = IF due THEN 0 ELSE since_flush
                      /\ IF len # 0
                         THEN AddTextChunkOp("tx", [unit |-> NextUnit(unit_no), len |-> len])
                         ELSE UNCHANGED wvars
                      /\ UNCHANGED <<spc, sres>>
    /\ UNCHANGED <<next_block, variant, closed, queue, cur, forwarded, rpc, exit_cause,
                   cleanup, texts, waited, idle>>
    /\ UNCHANGED <<cvars, tvars>>

\* `sentences` is exhausted.  raw: the final flush when pending_chars > 0.
SenderSourceEnds ==
    /\ spc = "iter"
    /\ IF variant = "raw" /\ pending_chars > 0
       THEN IF closed
            THEN SenderExit("send_error", wire)
            ELSE SenderExit("ok", Append(wire, FlushFrame))
       ELSE SenderExit("ok", wire)
    /\ UNCHANGED <<next_block, variant, pending_chars, since_flush, unit_no, closed, queue,
                   cur, forwarded, rpc, exit_cause, cleanup, texts, waited, idle>>
    /\ UNCHANGED <<cvars, tvars>>

\* The text source raises while the sender iterates it.
SenderSourceRaises ==
    /\ spc = "iter"
    /\ SenderExit("source_error", wire)
    /\ UNCHANGED <<next_block, variant, pending_chars, since_flush, unit_no, closed, queue,
                   cur, forwarded, rpc, exit_cause, cleanup, texts, waited, idle>>
    /\ UNCHANGED <<cvars, tvars>>

\* sdk: the finalize awaited in the sender's finally returns; close() ends it.
SdkSenderFinalized ==
    /\ variant = "sdk" /\ spc = "finalizing"
    /\ \E resp \in SessionResponses(wtask["tx"].slice) :
          FinalizeReturnsThenCloseOp("tx", resp, "ok")
    /\ spc' = "done"
    /\ UNCHANGED <<next_block, variant, sres, pending_chars, since_flush, unit_no, wire,
                   closed, queue, cur, forwarded, rpc, exit_cause, cleanup, texts, capture, waited,
                   idle>>
    /\ UNCHANGED <<cvars, tvars>>

\* ------------------------------------------------------------ the provider
ProviderSendsAudio ==
    /\ ~closed /\ InLoop
    /\ next_block <= MaxFrames
    /\ queue' = Append(queue, next_block)
    /\ next_block' = next_block + 1
    /\ UNCHANGED <<wvars, variant, spc, sres, pending_chars, since_flush, unit_no, wire,
                   closed, cur, forwarded, rpc, exit_cause, cleanup, texts, capture, waited, idle>>
    /\ UNCHANGED <<cvars, tvars>>

\* The audio blocks a non-binary frame can embed; 0: none.  A frame the raw
\* loop reads from the socket is bytes or str, and a str has no `data`.
Payloads ==
    {0} \cup (IF variant = "sdk" /\ next_block <= MaxFrames THEN {next_block} ELSE {})

\* Mutant of OnMessage: a non-binary message is logged whatever it holds.
OnMessage_Logged(q, payload) == q

\* sdk: on_message (lines 206-219) for a message that is not bytes, on the
\* queue q: data of a message of type "audio" is queued as a frame.
OnMessage(q, payload) == IF payload # 0 THEN Append(q, payload) ELSE q

\* A non-binary frame arrives: raw reads it from the socket like any frame;
\* the sdk's on_message queues its audio payload or logs it and queues nothing.
ProviderSendsText ==
    /\ ~closed /\ InLoop
    /\ Len(texts) < MaxText
    /\ \E payload \in Payloads :
          /\ texts' = Append(texts, payload)
          /\ queue' = IF variant = "raw" THEN Append(queue, 0) ELSE OnMessage(queue, payload)
          /\ next_block' = IF payload # 0 THEN next_block + 1 ELSE next_block
    /\ UNCHANGED <<wvars, variant, spc, sres, pending_chars, since_flush,
                   unit_no, wire, closed, cur, forwarded, rpc, exit_cause, cleanup, capture, waited,
                   idle>>
    /\ UNCHANGED <<cvars, tvars>>

\* The provider closes the connection (sdk: the CLOSE event sets closed["flag"]).
ProviderCloses ==
    /\ ~closed
    /\ closed' = TRUE
    /\ UNCHANGED <<wvars, next_block, variant, spc, sres, pending_chars, since_flush,
                   unit_no, wire, queue, cur, forwarded, rpc, exit_cause, cleanup, texts, capture,
                   waited, idle>>
    /\ UNCHANGED <<cvars, tvars>>

\* ------------------------------------------------------- the receive loops
\* Mutant of RawEnterCleanup: the cleanup is skipped when the caller cancels.
RawEnterCleanup_NotOnCancel(cause) ==
    /\ exit_cause' = cause
    /\ IF cause = "cancelled"
       THEN rpc' = "done" /\ UNCHANGED <<cleanup, wire, capture>>
       ELSE /\ cleanup' = Append(cleanup, "Flush")
            /\ wire' = IF closed THEN wire ELSE Append(wire, FlushFrame)
            /\ capture' = IF closed THEN capture ELSE CaptureWrite(capture, "flush")
            /\ rpc' = "send_flush"

\* raw: the loop is left and the finally block starts: send Flush and, when
\* the send did not raise, capture.flush().
RawEnterCleanup(cause) ==
    /\ exit_cause' = cause
    /\ cleanup' = Append(cleanup, "Flush")
    /\ wire' = IF closed THEN wire ELSE Append(wire, FlushFrame)
    /\ capture' = IF closed THEN capture ELSE CaptureWrite(capture, "flush")
    /\ rpc' = "send_flush"

\* sdk: the code after the loop (lines 264-267): cancel the sender if it is
\* still running and await it.  A cancelled sender runs its finally block.
SdkAfterLoop(cause) ==
    /\ exit_cause' = cause
    /\ CASE spc = "done" ->
              /\ rpc' = "done"
              /\ UNCHANGED <<spc, sres, wire, wvars, capture>>
         [] spc = "iter" ->
              /\ rpc' = "await_sender"
              /\ SenderExit("cancelled", wire)
         [] spc = "finalizing" ->
              /\ rpc' = "await_sender"
              /\ spc' = "done" /\ sres' = "cancelled"
              /\ wtask' = [wtask EXCEPT !["tx"] = Idle("finalize")]
              /\ UNCHANGED <<wire, capture, audio_buffer, total_audio_duration_ms, all_words,
                             time_since_last, should_stop, pending_text_chunks, out_file, tmp_file,
                             write_count, alive, submissions>>

\* The loop takes the next frame: a non-binary one is logged; an audio frame
\* goes to add_audio_chunk and maybe_update and is then yielded.
LoopTakesFrame ==
    /\ rpc = "recv" /\ queue # <<>>
    /\ queue' = Tail(queue)
    /\ IF Head(queue) = 0
       THEN /\ waited' = 0
            /\ UNCHANGED <<wvars, cur, forwarded, rpc, idle, capture>>
       ELSE /\ capture' = CaptureWrite(capture, "audio")
            /\ AddThenMaybeUpdateOp("rx", <<Head(queue)>>)
            /\ idle' = IF variant = "raw" THEN 0 ELSE idle
            /\ waited' = 0
            /\ IF wtask'["rx"].pc = "await"
               THEN /\ cur' = Head(queue) /\ rpc' = "update"
                    /\ UNCHANGED forwarded
               ELSE /\ cur' = 0 /\ rpc' = "yield"
                    /\ forwarded' = Append(forwarded, Head(queue))
    /\ UNCHANGED <<next_block, variant, spc, sres, pending_chars, since_flush, unit_no,
                   wire, closed, exit_cause, cleanup, texts>>
    /\ UNCHANGED <<cvars, tvars>>

\* The recognition call awaited inside maybe_update returns; the frame is yielded.
LoopUpdateReturns ==
    /\ rpc = "update" /\ wtask["rx"].pc = "await"
    /\ \E resp \in SessionResponses(wtask["rx"].slice) : TranscribeReturnsOp("rx", resp, "ok")
    /\ forwarded' = Append(forwarded, cur)
    /\ cur' = 0
    /\ rpc' = "yield"
    /\ UNCHANGED <<next_block, variant, spc, sres, pending_chars, since_flush, unit_no,
                   wire, closed, queue, exit_cause, cleanup, texts, capture, waited, idle>>
    /\ UNCHANGED <<cvars, tvars>>

\* The caller asks for the next frame (sdk: last_audio is set after the yield).
CallerResumes ==
    /\ rpc = "yield"
    /\ rpc' = "recv"
    /\ waited' = 0
    /\ idle' = IF variant = "sdk" THEN 0 ELSE idle
    /\ UNCHANGED <<wvars, next_block, variant, spc, sres, pending_chars, since_flush,
                   unit_no, wire, closed, queue, cur, forwarded, exit_cause, cleanup, texts, capture>>
    /\ UNCHANGED <<cvars, tvars>>

\* Mutant of RawBreaks: the idle time alone ends the loop.
RawBreaks_IdleOnly(idle_exceeded) == idle_exceeded

\* raw (lines 404-414): break iff the sender task is done and idle_time > 15.0.
RawBreaks(idle_exceeded) == spc = "done" /\ idle_exceeded

\* sdk (lines 258-262): break iff closed["flag"] and the idle time > 10.0.
SdkBreaks(idle_exceeded) == closed /\ idle_exceeded

\* wait_for times out.  Whether an idle time of exactly the window counts as
\* exceeded depends on the clocks' readings.
LoopTimesOut ==
    /\ rpc = "recv" /\ queue = <<>>
    /\ waited >= IdleTicks
    /\ variant = "raw" => ~closed
    /\ \E exact \in BOOLEAN :
          LET idle_exceeded == idle > IdleTicks \/ (idle = IdleTicks /\ ~exact)
          IN  IF variant = "raw"
              THEN IF RawBreaks(idle_exceeded)
                   THEN /\ RawEnterCleanup("idle")
                        /\ UNCHANGED <<wvars, spc, sres, waited>>
                   ELSE /\ waited' = 0
                        /\ UNCHANGED <<wvars, spc, sres, wire, rpc, exit_cause, cleanup,
                                       capture>>
              ELSE IF SdkBreaks(idle_exceeded)
                   THEN /\ SdkAfterLoop("idle")
                        /\ UNCHANGED <<waited, cleanup>>
                   ELSE /\ waited' = 0
                        /\ UNCHANGED <<wvars, spc, sres, wire, rpc, exit_cause, cleanup,
                                       capture>>
    /\ UNCHANGED <<next_block, variant, pending_chars, since_flush, unit_no, closed, queue,
                   cur, forwarded, texts, idle>>
    /\ UNCHANGED <<cvars, tvars>>

\* raw: ws.recv() raises ConnectionClosedOK or ConnectionClosedError.
RawConnectionClosed ==
    /\ variant = "raw"
    /\ rpc = "recv" /\ queue = <<>> /\ closed
    /\ RawEnterCleanup("closed")
    /\ UNCHANGED <<wvars, next_block, variant, spc, sres, pending_chars, since_flush,
                   unit_no, closed, queue, cur, forwarded, texts, waited, idle>>
    /\ UNCHANGED <<cvars, tvars>>

\* The caller cancels the stream (CancelledError at an await, GeneratorExit
\* at the yield).  A recognition call in flight is cancelled with it.  raw:
\* the finally block runs.  sdk: the error leaves the generator through the
\* `with` block, which closes the connection; lines 264-267 are skipped.
CallerCancels ==
    /\ InLoop
    /\ wtask' = [wtask EXCEPT !["rx"] = Idle(wtask["rx"].op)]
    /\ cur' = 0
    /\ IF variant = "raw"
       THEN /\ RawEnterCleanup("cancelled")
            /\ UNCHANGED closed
       ELSE /\ exit_cause' = "cancelled"
            /\ rpc' = "done"
            /\ closed' = TRUE
            /\ UNCHANGED <<wire, cleanup, capture>>
    /\ UNCHANGED <<audio_buffer, total_audio_duration_ms, all_words, time_since_last,
                   should_stop, pending_text_chunks, out_file, tmp_file, write_count, alive, submissions,
                   next_block, variant, spc, sres, pending_chars, since_flush, unit_no,
                   queue, forwarded, texts, waited, idle>>
    /\ UNCHANGED <<cvars, tvars>>

\* ----------------------------------------------- raw: the finally block
\* Lines 460-463: send Close (errors suppressed), then capture.close().
RawSendsClose ==
    /\ variant = "raw" /\ rpc = "send_flush"
    /\ cleanup' = Append(cleanup, "Close")
    /\ wire' = IF closed THEN wire ELSE Append(wire, CloseFrame)
    /\ capture' = CaptureWrite(capture, "close")
    /\ rpc' = "send_close"
    /\ UNCHANGED <<wvars, next_block, variant, spc, sres, pending_chars, since_flush,
                   unit_no, closed, queue, cur, forwarded, exit_cause, texts, waited, idle>>
    /\ UNCHANGED <<cvars, tvars>>

\* transcription.finalize() (line 466); with nothing buffered it returns at
\* once, and transcription.close() and ws.close() follow (lines 467-469).
RawFinalizes ==
    /\ variant = "raw" /\ rpc = "send_close"
    /\ IF audio_buffer = <<>>
       THEN /\ CloseOp("rx")
            /\ cleanup' = Append(cleanup, "SocketClose")
            /\ closed' = TRUE
            /\ rpc' = "ws_close"
       ELSE /\ FinalizeOp("rx")
            /\ rpc' = "finalizing"
            /\ UNCHANGED <<cleanup, closed>>
    /\ UNCHANGED <<next_block, variant, spc, sres, pending_chars, since_flush, unit_no,
                   wire, queue, cur, forwarded, exit_cause, texts, capture, waited, idle>>
    /\ UNCHANGED <<cvars, tvars>>

\* The awaited finalize returns; transcription.close() and ws.close() follow.
RawFinalized ==
    /\ variant = "raw" /\ rpc = "finalizing"
    /\ \E resp \in SessionResponses(wtask["rx"].slice) :
          FinalizeReturnsThenCloseOp("rx", resp, "ok")
    /\ cleanup' = Append(cleanup, "SocketClose")
    /\ closed' = TRUE
    /\ rpc' = "ws_close"
    /\ UNCHANGED <<next_block, variant, spc, sres, pending_chars, since_flush, unit_no,
                   wire, queue, cur, forwarded, exit_cause, texts, capture, waited, idle>>
    /\ UNCHANGED <<cvars, tvars>>

\* Lines 470-473: a sender still running is cancelled and awaited.
RawCleanupEnds ==
    /\ variant = "raw" /\ rpc = "ws_close"
    /\ rpc' = "done"
    /\ IF spc = "done"
       THEN UNCHANGED <<spc, sres>>
       ELSE spc' = "done" /\ sres' = "cancelled"
    /\ UNCHANGED <<wvars, next_block, variant, pending_chars, since_flush, unit_no, wire,
                   closed, queue, cur, forwarded, exit_cause, cleanup, texts, capture, waited, idle>>
    /\ UNCHANGED <<cvars, tvars>>

\* sdk: the awaited sender task has ended.
SdkSenderAwaited ==
    /\ variant = "sdk" /\ rpc = "await_sender" /\ spc = "done"
    /\ rpc' = "done"
    /\ UNCHANGED <<wvars, next_block, variant, spc, sres, pending_chars, since_flush,
                   unit_no, wire, closed, queue, cur, forwarded, exit_cause, cleanup, texts, capture,
                   waited, idle>>
    /\ UNCHANGED <<cvars, tvars>>

\* -------------------------------------------------------------------- time
\* One tick passes.  A timer that nothing will read again is left alone.
Bump(timer, cap, live) == IF live /\ timer < cap THEN timer + 1 ELSE timer

SessionTick ==
    /\ since_flush' = Bump(since_flush, 1, spc = "iter")
    /\ waited' = Bump(waited, IdleTicks, rpc = "recv")
    /\ idle' = Bump(idle, IdleTicks + 1, InLoop)
    /\ time_since_last' = Bump(time_since_last, update_interval, InLoop)
    /\ <<since_flush', waited', idle', time_since_last'>>
          # <<since_flush, waited, idle, time_since_last>>
    /\ UNCHANGED <<audio_buffer, total_audio_duration_ms, all_words, should_stop, pending_text_chunks, out_file,
                   tmp_file, write_count, alive, wtask, submissions, next_block, variant,
                   spc, sres, pending_chars, unit_no, wire, closed, queue, cur, forwarded,
                   rpc, exit_cause, cleanup, texts, capture>>
    /\ UNCHANGED <<cvars, tvars>>

SNext ==
    \/ SenderSendsUnit
    \/ SenderSourceEnds
    \/ SenderSourceRaises
    \/ SdkSenderFinalized
    \/ ProviderSendsAudio
    \/ ProviderSendsText
    \/ ProviderCloses
    \/ LoopTakesFrame
    \/ LoopUpdateReturns
    \/ CallerResumes
    \/ LoopTimesOut
    \/ RawConnectionClosed
    \/ CallerCancels
    \/ RawSendsClose
    \/ RawFinalizes
    \/ RawFinalized
    \/ RawCleanupEnds
    \/ SdkSenderAwaited
    \/ SessionTick

\* A session just opened: its writer constructed, its sender task created.
SessionInit == WInit /\ SInit /\ NoChunker /\ NoSanitize

SessionSpec == SessionInit /\ [][SNext]_vars

\* How the stream ends for its caller.  "cancelled": the caller's own
\* cancellation, or the CancelledError that `await send_task` re-raises
\* after send_task.cancel() (contextlib.suppress(Exception) does not hold
\* it).  No other error leaves the generators: the sender's errors stay in
\* its task, ConnectionClosedOK/Error are caught at lines 451-454.
StreamOutcome ==
    IF rpc # "done" THEN "running"
    ELSE IF exit_cause = "cancelled" \/ sres = "cancelled" THEN "cancelled"
    ELSE "returned"

\* The steps the generator takes by itself once it is scheduled.
ReceiverStep ==
    \/ LoopTakesFrame
    \/ LoopUpdateReturns
    \/ LoopTimesOut
    \/ RawConnectionClosed
    \/ RawSendsClose
    \/ RawFinalizes
    \/ RawFinalized
    \/ RawCleanupEnds
    \/ SdkSenderAwaited

\* Fair scheduling: time passes, the event loop runs a task that can run, a
\* recognition call returns (httpx timeout=30) and the caller keeps asking
\* for frames.  Nothing is assumed of the text source, of the provider or of
\* a cancellation.
FairSessionSpec ==
    /\ SessionSpec
    /\ WF_vars(SessionTick)
    /\ WF_vars(ReceiverStep)
    /\ WF_vars(CallerResumes)
    /\ WF_vars(SdkSenderFinalized)

\* ======================================================================
\* speech.sentence_chunks: one call of the generator, driven by its
\* consumer.  A text is a sequence of one-character strings; "a" stands for
\* any character that is neither whitespace nor sentence punctuation.
\* ======================================================================
Whitespace == {" ", "\n"}

SentencePunct == {".", "!", "?"}

\* The fragments token_iter can deliver.
Fragments ==
    {<<>>, <<"a">>, <<".">>, <<" ">>, <<"\n">>, <<"a", "?">>, <<".", " ">>, <<" ", "a">>,
     <<".", " ", "a">>}

\* Mutant of Strip: sentence punctuation at the end is removed with the whitespace.
RECURSIVE Strip_Punct(_)
Strip_Punct(s) ==
    IF s = <<>> THEN s
    ELSE IF Head(s) \in Whitespace THEN Strip_Punct(Tail(s))
    ELSE IF s[Len(s)] \in Whitespace \cup SentencePunct
    THEN Strip_Punct(SubSeq(s, 1, Len(s) - 1))
    ELSE s

\* Mutant of Strip: only trailing whitespace is removed (str.rstrip()).
RECURSIVE Strip_Right(_)
Strip_Right(s) ==
    IF s = <<>> THEN s
    ELSE IF s[Len(s)] \in Whitespace THEN Strip_Right(SubSeq(s, 1, Len(s) - 1))
    ELSE s

\* str.strip(): leading and trailing whitespace removed.
RECURSIVE Strip(_)
Strip(s) ==
    IF s = <<>> THEN s
    ELSE IF Head(s) \in Whitespace THEN Strip(Tail(s))
    ELSE IF s[Len(s)] \in Whitespace THEN Strip(SubSeq(s, 1, Len(s) - 1))
    ELSE s

\* Mutant of SentenceEnd: the punctuation mark alone ends a sentence.
SentenceEnd_NoSpace(s) == Len(s) >= 1 /\ s[Len(s)] \in SentencePunct

\* re.search(r"[.!?]\s$", joined): `$` matches at the end of the string and
\* before a newline that ends the string.
SentenceEnd(s) ==
    LET n == Len(s)
    IN  \/ n >= 2 /\ s[n - 1] \in SentencePunct /\ s[n] \in Whitespace
        \/ n >= 3 /\ s[n] = "\n" /\ s[n - 2] \in SentencePunct /\ s[n - 1] \in Whitespace

\* Mutant of BoundaryReached: a newline in the buffer is no boundary.
BoundaryReached_NoNewline(s) == SentenceEnd(s) \/ Len(s) >= min_chars

\* The flush condition of line 34.
BoundaryReached(s) == SentenceEnd(s) \/ "\n" \in Range(s) \/ Len(s) >= min_chars

\* Mutant of ElapsedFlushDue: the elapsed-time rule is not limited to the first unit.
ElapsedFlushDue_Always(s, since, sent) == since >= first_flush_ms /\ Strip(s) # <<>>

\* The elapsed-time rule of lines 42-44; `since` is the time since
\* first_started_at, in ticks.
ElapsedFlushDue(s, since, sent) == ~sent /\ since >= first_flush_ms /\ Strip(s) # <<>>

Unit(text, rule) == [text |-> text, rule |-> rule]

CInit ==
    /\ token_text = <<>> /\ total_tokens_received = 0 /\ buffer = <<>>
    /\ since_first = -1 /\ first_chunk_sent = FALSE /\ units = <<>> /\ cpc = "iter"

\* A writer that nothing drives and no session: the other components while a
\* call of sentence_chunks is followed.
Quiet == WInit /\ time_since_last = 0 /\ NoSession

\* Mutant of ChunkerTakes: a buffer that has reached a boundary is emitted
\* only when the fragment after it has been read.
ChunkerTakes_Deferred(token) ==
    /\ token_text' = token_text \o token
    /\ total_tokens_received' = total_tokens_received + 1
    /\ IF BoundaryReached(buffer)
       THEN /\ units' = IF Strip(buffer) # <<>>
                        THEN Append(units, Unit(Strip(buffer), "boundary"))
                        ELSE units
            /\ first_chunk_sent' = (first_chunk_sent \/ Strip(buffer) # <<>>)
            /\ buffer' = token
       ELSE /\ buffer' = buffer \o token
            /\ UNCHANGED <<units, first_chunk_sent>>
    /\ since_first' = 0
    /\ UNCHANGED cpc

\* One iteration of the for loop (lines 24-47) on the fragment `token`.
ChunkerTakes(token) ==
    LET since == IF since_first = -1 THEN 0 ELSE since_first
        joined == buffer \o token
    IN  /\ token_text' = token_text \o token
        /\ total_tokens_received' = total_tokens_received + 1
        /\ IF BoundaryReached(joined)
           THEN /\ units' = IF Strip(joined) # <<>>
                            THEN Append(units, Unit(Strip(joined), "boundary"))
                            ELSE units
                /\ first_chunk_sent' = (first_chunk_sent \/ Strip(joined) # <<>>)
                /\ buffer' = <<>>
                /\ since_first' = -1
           ELSE IF ElapsedFlushDue(joined, since, first_chunk_sent)
           THEN /\ units' = Append(units, Unit(Strip(joined), "elapsed"))
                /\ first_chunk_sent' = TRUE
                /\ buffer' = <<>>
                /\ since_first' = -1
           ELSE /\ buffer' = joined
                /\ since_first' = since
                /\ UNCHANGED <<units, first_chunk_sent>>
        /\ UNCHANGED cpc

ChunkerNext ==
    /\ cpc = "iter"
    /\ total_tokens_received < MaxTokens
    /\ \E token \in Fragments : ChunkerTakes(token)
    /\ UNCHANGED <<wvars, next_block, svars, tvars>>

\* token_iter is exhausted: the final flush of lines 49-54.
ChunkerEnds ==
    /\ cpc = "iter"
    /\ cpc' = "done"
    /\ units' = IF Strip(buffer) # <<>>
                THEN Append(units, Unit(Strip(buffer), "final"))
                ELSE units
    /\ UNCHANGED <<token_text, total_tokens_received, buffer, since_first, first_chunk_sent>>
    /\ UNCHANGED <<wvars, next_block, svars, tvars>>

\* Mutant of ChunkerTick: a timer emits the buffer as soon as first_flush_ms
\* has passed, without waiting for a fragment.
ChunkerTick_Flushes ==
    /\ cpc = "iter"
    /\ since_first >= 0 /\ since_first < first_flush_ms
    /\ IF ElapsedFlushDue(buffer, since_first + 1, first_chunk_sent)
       THEN /\ units' = Append(units, Unit(Strip(buffer), "elapsed"))
            /\ first_chunk_sent' = TRUE
            /\ buffer' = <<>>
            /\ since_first' = -1
       ELSE /\ since_first' = since_first + 1
            /\ UNCHANGED <<buffer, first_chunk_sent, units>>
    /\ UNCHANGED <<token_text, total_tokens_received, cpc>>
    /\ UNCHANGED <<wvars, next_block, svars, tvars>>

\* Time passes while the generator waits for the next fragment; it is
\* measured only while a buffer has been started (first_started_at is set).
ChunkerTick ==
    /\ cpc = "iter"
    /\ since_first >= 0 /\ since_first < first_flush_ms
    /\ since_first' = since_first + 1
    /\ UNCHANGED <<token_text, total_tokens_received, buffer, first_chunk_sent, units, cpc>>
    /\ UNCHANGED <<wvars, next_block, svars, tvars>>

CNext ==
    \/ ChunkerNext
    \/ ChunkerEnds
    \/ ChunkerTick

ChunkerInit == Quiet /\ CInit /\ NoSanitize

ChunkerSpec == ChunkerInit /\ [][CNext]_vars

\* The input is finite: token_iter is exhausted after finitely many fragments.
FairChunkerSpec == ChunkerSpec /\ WF_vars(ChunkerEnds)

\* ======================================================================
\* speech.sanitize_for_tts.  A text is a sequence of one-character strings
\* over TextChars; "a" stands for any character no rule of the function
\* mentions.  The rules that need a character outside TextChars (headings,
\* tags, list markers, brackets, the other operators, underscores) leave
\* such texts as they are.
\* ======================================================================
\* The backquote character.
Backtick == "backquote"

TextChars == {"a", Backtick, "*", "=", ".", " ", "\n"}

Texts == UNION {[1..n -> TextChars] : n \in 0..MaxChars}

Drop(s, n) == SubSeq(s, n + 1, Len(s))

\* The length of the longest prefix of s made of characters of `set`.
RECURSIVE RunLen(_, _)
RunLen(s, set) ==
    IF s = <<>> \/ Head(s) \notin set THEN 0 ELSE 1 + RunLen(Tail(s), set)

\* str.replace(pat, rep).
RECURSIVE Replace(_, _, _)
Replace(s, pat, rep) ==
    IF Len(s) < Len(pat) THEN s
    ELSE IF IsPrefix(pat, s) THEN rep \o Replace(Drop(s, Len(pat)), pat, rep)
    ELSE <<Head(s)>> \o Replace(Tail(s), pat, rep)

\* re.sub of a run of at least `least` characters of `set` by `rep`.
RECURSIVE SubRuns(_, _, _, _)
SubRuns(s, set, least, rep) ==
    IF s = <<>> THEN s
    ELSE LET n == RunLen(s, set)
         IN  IF n = 0 THEN <<Head(s)>> \o SubRuns(Tail(s), set, least, rep)
             ELSE (IF n >= least THEN rep ELSE SubSeq(s, 1, n))
                  \o SubRuns(Drop(s, n), set, least, rep)

Fence == <<Backtick, Backtick, Backtick>>

\* Line 72: re.sub(r"```[^`]*```", "", text, flags=re.DOTALL).
RECURSIVE RemoveCodeBlocks(_)
RemoveCodeBlocks(s) ==
    IF Len(s) < 6 THEN s
    ELSE LET k == 3 + RunLen(Drop(s, 3), TextChars \ {Backtick})
         IN  IF IsPrefix(Fence, s) /\ IsPrefix(Fence, Drop(s, k))
             THEN RemoveCodeBlocks(Drop(s, k + 3))
             ELSE <<Head(s)>> \o RemoveCodeBlocks(Tail(s))

\* Line 76: re.sub(r"`[^`]+`", "", text).
RECURSIVE RemoveInlineCode(_)
RemoveInlineCode(s) ==
    IF s = <<>> THEN s
    ELSE LET n == RunLen(Tail(s), TextChars \ {Backtick})
         IN  IF Head(s) = Backtick /\ n >= 1 /\ Len(s) >= n + 2 /\ s[n + 2] = Backtick
             THEN RemoveInlineCode(Drop(s, n + 2))
             ELSE <<Head(s)>> \o RemoveInlineCode(Tail(s))

\* Line 123: re.sub(r"\n\s*\n\s*\n+", "\n\n", text): a whitespace run that
\* starts with a newline is cut down to two newlines up to its last newline
\* when it holds three or more of them.
RECURSIVE CollapseBlankLines(_)
CollapseBlankLines(s) ==
    IF s = <<>> THEN s
    ELSE LET run == RunLen(s, Whitespace)
             newlines == {i \in 1..run : s[i] = "\n"}
             last == CHOOSE i \in newlines : \A j \in newlines : j <= i
         IN  IF Head(s) = "\n" /\ Cardinality(newlines) >= 3
             THEN <<"\n", "\n">> \o CollapseBlankLines(Drop(s, last))
             ELSE <<Head(s)>> \o CollapseBlankLines(Tail(s))

\* Line 124: re.sub(r"\s+([.,!?:;])", r"\1", text).
RECURSIVE RemoveSpaceBeforePunct(_)
RemoveSpaceBeforePunct(s) ==
    IF s = <<>> THEN s
    ELSE LET n == RunLen(s, Whitespace)
         IN  IF n = 0 THEN <<Head(s)>> \o RemoveSpaceBeforePunct(Tail(s))
             ELSE IF Len(s) > n /\ s[n + 1] \in {".", ",", "!", "?", ":", ";"}
             THEN RemoveSpaceBeforePunct(Drop(s, n))
             ELSE SubSeq(s, 1, n) \o RemoveSpaceBeforePunct(Drop(s, n))

Equals == <<" ", "e", "q", "u", "a", "l", "s", " ">>

\* Lines 72-126, in order.
Sanitized(t0) ==
    LET t1 == SubRuns(RemoveCodeBlocks(t0), {Backtick}, 3, <<>>)           \* 72, 73
        t2 == Replace(RemoveInlineCode(t1), <<Backtick>>, <<>>)             \* 76, 77
        t3 == Replace(Replace(t2, <<"*", "*">>, <<>>), <<"*">>, <<>>)  \* 80
        t4 == Replace(t3, <<"=", "=">>, Equals)                        \* 99
        t5 == SubRuns(t4, {"="}, 1, <<" ">>)                           \* 107
        t6 == SubRuns(t5, {"."}, 2, <<".">>)                           \* 117
        t7 == SubRuns(t6, {" "}, 1, <<" ">>)                           \* 122
        t8 == RemoveSpaceBeforePunct(CollapseBlankLines(t7))           \* 123, 124
    IN  Strip(t8)

\* Mutant of sanitize_for_tts: a backtick without its partner is an error.
sanitize_for_tts_Strict(t) ==
    IF Cardinality({i \in 1..Len(t) : t[i] = Backtick}) % 2 = 1 THEN Raise
    ELSE Return(IF t = <<>> THEN <<>> ELSE Sanitized(t))

sanitize_for_tts(t) == Return(IF t = <<>> THEN <<>> ELSE Sanitized(t))

\* sanitize_for_tts(t) is called.
SanitizeCall ==
    /\ calls = 0
    /\ \E t \in Texts :
          /\ san_text' = t
          /\ san_result' = sanitize_for_tts(t)
    /\ calls' = 1
    /\ UNCHANGED <<wvars, next_block, svars, cvars>>

\* It is called again with the same argument.
SanitizeAgain ==
    /\ calls >= 1 /\ calls < MaxCalls
    /\ san_text' = san_text
    /\ san_result' = sanitize_for_tts(san_text)
    /\ calls' = calls + 1
    /\ UNCHANGED <<wvars, next_block, svars, cvars>>

TNext ==
    \/ SanitizeCall
    \/ SanitizeAgain

SanitizeInit == Quiet /\ NoChunker /\ NoSanitize

SanitizeSpec == SanitizeInit /\ [][TNext]_vars

\* ======================================================================
\* Claims about LiveTranscriptionWriter, checked under Spec
\* ======================================================================
IsSnapshot(f) == f.json = "complete"

\* C1: within one session the word_count of successive published snapshots
\* never decreases and the word list of each published snapshot is a prefix
\* of the word list of the next one.
C1_CaptionMonotonic ==
    [][(IsSnapshot(out_file) /\ out_file' # out_file) =>
          /\ IsSnapshot(out_file')
          /\ out_file.word_count <= out_file'.word_count
          /\ IsPrefix(out_file.transcription, out_file'.transcription)]_vars

\* C1 witness: a snapshot published after an earlier non-empty one: words of
\* two different sub-clips are in the published list.
C1_Witness ==
    /\ IsSnapshot(out_file)
    /\ \E i, j \in 1..Len(out_file.transcription) :
          out_file.transcription[i].word[1] # out_file.transcription[j].word[1]

\* C2: maybe_update posts a slice only when the time since the last
\* submission is at least update_interval and the buffered size is at least
\* min_audio_bytes; when either threshold is not met it posts nothing and
\* leaves the buffer and the last-submission time as they are.
C2_ThresholdGating ==
    [][/\ (/\ Len(submissions') > Len(submissions)
           /\ submissions'[Len(submissions')].op = "maybe_update")
          => (/\ time_since_last >= update_interval
              /\ Len(audio_buffer) >= min_audio_bytes
              /\ submissions'[Len(submissions')].slice = audio_buffer)
       /\ (/\ MaybeUpdate
           /\ ~(time_since_last >= update_interval /\ Len(audio_buffer) >= min_audio_bytes))
          => UNCHANGED <<audio_buffer, time_since_last, submissions>>]_vars

\* C2 witness: a slice has been posted by maybe_update.
C2_Witness ==
    \E i \in 1..Len(submissions) : submissions[i].op = "maybe_update"

\* C3: finalize posts the whole remaining buffer whatever the thresholds say
\* whenever the buffer is not empty, leaves the buffer empty, and posts
\* nothing when the buffer is empty.
C3_FinalFlush ==
    [][Finalize =>
          /\ audio_buffer' = <<>>
          /\ IF audio_buffer # <<>>
             THEN submissions' = Append(submissions, [slice |-> audio_buffer, op |-> "finalize"])
             ELSE submissions' = submissions]_vars

\* C3 witness: finalize has just posted a slice smaller than min_audio_bytes
\* while the time threshold was not met either.
C3_Witness ==
    /\ wtask["tx"].pc = "await"
    /\ submissions # <<>>
    /\ submissions[Len(submissions)].op = "finalize"
    /\ Len(submissions[Len(submissions)].slice) < min_audio_bytes
    /\ time_since_last < update_interval
    /\ audio_buffer = <<>>

\* C4: at every point, also when the writer is killed inside a publish, the
\* file at the published path is one complete snapshot, and a publish
\* either leaves it as it was or installs the complete new snapshot.
C4_AtomicPublish ==
    /\ [](/\ IsSnapshot(out_file)
          /\ out_file = Snapshot(out_file.transcription, out_file.last_updated))
    /\ [][out_file' = out_file \/ out_file' = Snapshot(all_words', write_count')]_vars

\* C4 witness: the writer was killed inside a publish, after the temporary
\* file was opened and before the rename.
C4_Witness == ~alive /\ tmp_file = Partial /\ Len(all_words) > 0

\* C5: the start and end times of merged words are increased by the duration
\* of all audio consumed by earlier submissions of the session (times in
\* half-milliseconds; word[1] is the first block of the word's sub-clip,
\* word[3] and word[4] the provider's start and end in that sub-clip).
ConsumedBefore(w) == 2 * PcmDurationMs(w.word[1] - 1)

C5_SessionRelativeTimes ==
    \A i \in 1..Len(all_words) :
        /\ all_words[i].start_time = Round3(all_words[i].word[3] + ConsumedBefore(all_words[i]))
        /\ all_words[i].end_time = Round3(all_words[i].word[4] + ConsumedBefore(all_words[i]))

\* ======================================================================
\* Claims about the synthesis sessions
\* ======================================================================
CleanupOrder == <<"Flush", "Close", "SocketClose">>

EndsOnTimeout == InLoop' = FALSE /\ InLoop /\ exit_cause' = "idle"

SenderLoopFinished == spc # "iter"

C8_EventuallyEnds == (spc = "done") ~> (rpc = "done")

\* C8, stream_deepgram_tts_raw alone: the session of that variant ends.
C8_RawEventuallyEnds == (variant = "raw" /\ spc = "done") ~> (rpc = "done")

SpeakIds == LET sp == SelectSeq(wire, LAMBDA f : f[1] = "Speak")
            IN  [i \in 1..Len(sp) |-> sp[i][2]]

\* C9: the Speak frames on the socket carry the units in the order the text
\* source produced them, and no unit twice: their unit numbers increase,
\* and a step of the sender adds at most the one unit it has just taken.
C9_SpeakOrder ==
    /\ [](\A i, j \in 1..Len(SpeakIds) : i < j => SpeakIds[i] < SpeakIds[j])
    /\ [][SenderSendsUnit =>
            LET added == SubSeq(wire', Len(wire) + 1, Len(wire'))
            IN  \A k \in 1..Len(added) :
                    added[k][1] = "Speak" => k = 1 /\ added[k][2] = unit_no']_vars

\* C9 witness: two units were sent, a Flush between them.
C9_Witness ==
    /\ Len(SpeakIds) = 2
    /\ \E k \in 2..Len(wire) - 1 : wire[k] = FlushFrame /\ wire[k + 1][1] = "Speak"

RECURSIVE Concat(_)
Concat(seqs) == IF seqs = <<>> THEN <<>> ELSE Head(seqs) \o Concat(Tail(seqs))

\* Everything add_audio_chunk has appended, in order: the slices handed to
\* recognition, then what is still in the buffer.
Accumulated == Concat([i \in 1..Len(submissions) |-> submissions[i].slice]) \o audio_buffer

\* The audio frames the loop has received, in arrival order.
ReceivedFrames ==
    LET waiting == Len(SelectSeq(queue, LAMBDA f : f # 0))
    IN  [i \in 1..(next_block - 1 - waiting) |-> i]

\* C10: the audio frames the loop has received are appended to the
\* accumulator once each in arrival order, and forwarded to the caller once
\* each in arrival order; a frame is not yet forwarded only while its
\* maybe_update is awaited or when the caller cancelled during that wait.
C10_ForwardedInOrder ==
    /\ Accumulated = ReceivedFrames
    /\ IF rpc = "update" THEN Append(forwarded, cur) = ReceivedFrames
       ELSE IF exit_cause = "cancelled" THEN IsPrefix(forwarded, ReceivedFrames)
                                             /\ Len(ReceivedFrames) <= Len(forwarded) + 1
       ELSE forwarded = ReceivedFrames

\* C10 witness: two frames were forwarded, a recognition submitted between.
C10_Witness ==
    /\ Len(forwarded) = 2 /\ submissions # <<>> /\ rpc = "yield"
    /\ audio_buffer = <<>>

\* C11: the session word list holds the words of an earlier-taken slice
\* before the words of a later-taken slice, and the words of one slice in
\* the order the provider returned them (word[1] is the first block of the
\* word's slice, word[2] its position in the response).
C11_SubmissionOrder ==
    \A i, j \in 1..Len(all_words) :
        i < j => \/ all_words[i].word[1] < all_words[j].word[1]
                 \/ /\ all_words[i].word[1] = all_words[j].word[1]
                    /\ all_words[i].word[2] < all_words[j].word[2]

\* C12: a received audio frame is forwarded without waiting for a
\* recognition request: while a request is in flight and the receive loop
\* runs, every frame the loop has received has been forwarded.
C12_ForwardingNotDelayed ==
    (InLoop /\ \E t \in Tasks : wtask[t].pc = "await") => forwarded = ReceivedFrames

\* The outcomes of a recognition request that _get_word_timestamps turns
\* into an empty word list.
RecognitionFailures ==
    {"exception", "non200", "no_channels", "no_alternatives", "empty_transcript",
     "no_words", "bad_words"}

\* C13: whichever way a recognition request fails, the call that awaited it
\* (maybe_update or finalize) returns, and the session word list, the
\* published file and the temporary file are as they were.
C13_FailureIsHarmless ==
    [][\A t \in Tasks :
          (wtask[t].pc = "await" /\ wtask'[t].res \in RecognitionFailures)
              => /\ wtask'[t].pc = "idle"
                 /\ all_words' = all_words
                 /\ out_file' = out_file /\ tmp_file' = tmp_file
                 /\ alive' = alive]_vars

\* C13 witness: the request of a finalize was answered with a non-200
\* status after an earlier request had produced words.
C13_Witness ==
    \E t \in Tasks :
        /\ wtask[t].res = "non200" /\ wtask[t].op = "finalize"
        /\ Len(all_words) > 0 /\ out_file = Snapshot(all_words, write_count)

\* C13, in a session: after a failed request of maybe_update the receive
\* loop yields the frame it was handling.
C13_SessionKeepsForwarding ==
    [][(rpc = "update" /\ wtask'["rx"].res \in RecognitionFailures)
          => rpc' = "yield" /\ forwarded' = Append(forwarded, cur)]_vars

\* C14: when the connection fails under the receiver (ws.recv raises) or
\* under the sender (a send raises), the stream does not end for the caller
\* as if it had completed.
C14_ConnectionErrorRaised ==
    (rpc = "done" /\ (exit_cause = "closed" \/ sres = "send_error"))
        => StreamOutcome # "returned"

\* C15: when the text source raises under the sender, the stream does not
\* go on to end by the idle timeout and does not end for the caller as if
\* it had completed.
C15_SourceErrorAborts ==
    (rpc = "done" /\ sres = "source_error")
        => exit_cause # "idle" /\ StreamOutcome # "returned"

\* C16: once a session that its caller cancelled has ended, its sender task
\* has ended too, and in stream_deepgram_tts_raw the cleanup has run.
C16_CancelStopsSender ==
    (rpc = "done" /\ exit_cause = "cancelled")
        => spc = "done" /\ (variant = "raw" => cleanup = CleanupOrder)

\* C17: when a session has returned to its caller, the accumulator's buffer
\* is empty and every forwarded frame is in some recognition submission.
C17_FinalFlushComplete ==
    StreamOutcome = "returned"
        => /\ audio_buffer = <<>>
           /\ \A i \in 1..Len(forwarded) :
                 \E k \in 1..Len(submissions) : forwarded[i] \in Range(submissions[k].slice)


\* ======================================================================
\* Claims about sentence_chunks
\* ======================================================================
RECURSIVE StripLeft(_)
StripLeft(s) ==
    IF s # <<>> /\ Head(s) \in Whitespace THEN StripLeft(Tail(s)) ELSE s

UnitTexts == [i \in 1..Len(units) |-> units[i].text]

\* `text` is the units `us` in order, then `rest`, with nothing between them
\* but whitespace.
RECURSIVE SplitsInto(_, _, _)
SplitsInto(text, us, rest) ==
    IF us = <<>>
    THEN /\ Len(rest) <= Len(text)
         /\ SubSeq(text, Len(text) - Len(rest) + 1, Len(text)) = rest
         /\ \A i \in 1..(Len(text) - Len(rest)) : text[i] \in Whitespace
    ELSE LET t == StripLeft(text)
         IN  /\ Head(us) # <<>>
             /\ IsPrefix(Head(us), t)
             /\ SplitsInto(SubSeq(t, Len(Head(us)) + 1, Len(t)), Tail(us), rest)

\* C18: the fragments received so far, concatenated, are the emitted units in
\* order followed by the buffered text, with only whitespace removed between
\* them; once the call has ended the units alone make up the input, so no
\* character other than whitespace is lost, duplicated or reordered.
C18_UnitsPreserveText ==
    /\ cpc = "iter" => SplitsInto(token_text, UnitTexts, buffer)
    /\ cpc = "done" => SplitsInto(token_text, UnitTexts, <<>>)

\* The call has ended after two units, and whitespace was trimmed on the way.
C18_Witness ==
    /\ cpc = "done"
    /\ Len(units) = 2
    /\ Len(Concat(UnitTexts)) < Len(token_text)
    /\ \E i \in 1..Len(token_text) : token_text[i] \notin Whitespace


\* The fragment taken by a step of the for loop.
TakenFragment == SubSeq(token_text', Len(token_text) + 1, Len(token_text'))

\* A text none of the punctuation, newline and length rules flushes.
BelowEveryBoundary(s) ==
    /\ \A i \in 1..Len(s) : s[i] \notin SentencePunct /\ s[i] # "\n"
    /\ Len(s) < min_chars

TimedUnits == {i \in 1..Len(units) : units[i].rule = "elapsed"}

\* C19: when a fragment arrives and the buffer with it has no sentence
\* punctuation, no newline and fewer than min_chars characters, the buffer is
\* emitted as a unit if and only if no unit was emitted before, the time since
\* the buffer's first fragment has reached first_flush_ms and the buffer is
\* not blank; so at most one unit of a call is triggered by elapsed time, it is
\* the first unit, and every later unit comes from the other rules.
C19_FirstFlushOnce ==
    /\ [](Cardinality(TimedUnits) <= 1 /\ TimedUnits \subseteq {1})
    /\ [][(total_tokens_received' = total_tokens_received + 1
            /\ BelowEveryBoundary(buffer \o TakenFragment))
          => IF /\ units = <<>>
                /\ since_first >= first_flush_ms
                /\ \E i \in 1..Len(buffer \o TakenFragment) :
                        (buffer \o TakenFragment)[i] \notin Whitespace
             THEN /\ Len(units') = 1
                  /\ units'[1].text = Strip(buffer \o TakenFragment)
                  /\ buffer' = <<>>
             ELSE /\ units' = units
                  /\ buffer' = buffer \o TakenFragment]_vars

\* A unit shorter than min_chars was emitted by the elapsed-time rule; later
\* fragments were buffered for at least first_flush_ms without a second one.
C19_Witness ==
    /\ Len(units) = 1
    /\ units[1].rule = "elapsed"
    /\ Len(units[1].text) < min_chars
    /\ BelowEveryBoundary(token_text)
    /\ Len(buffer) >= 2
    /\ since_first >= first_flush_ms
    /\ cpc = "iter"


C21_InitialSnapshot ==
    (write_count >= 1 /\ alive)
        => /\ IsSnapshot(out_file)
           /\ all_words = <<>> => out_file = Snapshot(<<>>, 1)


\* C21, the constructor's publish succeeding: the path then holds the empty
\* snapshot, whatever it held before.
C21_SuccessfulConstruct ==
    [][(write_count = 0 /\ write_count' = 1 /\ alive' /\ tmp_file' = Absent)
          => out_file' = Snapshot(<<>>, 1)]_vars


EmptyRecognitions == {"empty_transcript", "no_words"}

\* C22: when the request a call awaits is answered with an empty transcript
\* or without words, nothing is merged and nothing is published: the word
\* list, the published file with its last_updated and word_count and the
\* number of publishes stay as they are, the call returns to its caller, and
\* the buffer, the timer and the writer are left ready for later calls.
C22_EmptyResultSkipsMerge ==
    [][\A t \in Tasks :
          (wtask[t].pc = "await" /\ wtask'[t].res \in EmptyRecognitions)
          => /\ all_words' = all_words
             /\ out_file'.transcription = out_file.transcription
             /\ out_file'.last_updated = out_file.last_updated
             /\ out_file'.word_count = out_file.word_count
             /\ out_file'.json = out_file.json
             /\ write_count' = write_count
             /\ wtask'[t].pc = "idle"
             /\ UNCHANGED <<audio_buffer, time_since_last, should_stop, pending_text_chunks, alive, submissions>>]_vars

\* The request of a finalize was answered with an empty transcript; the slice
\* submitted after it by maybe_update was recognised, merged and published.
C22_Witness ==
    /\ wtask["tx"].res = "empty_transcript"
    /\ wtask["tx"].op = "finalize"
    /\ wtask["rx"].res = "ok"
    /\ wtask["rx"].op = "maybe_update"
    /\ Len(submissions) = 2
    /\ submissions[1].op = "finalize"
    /\ all_words # <<>>
    /\ \A i \in 1..Len(all_words) : all_words[i].word[1] = submissions[2].slice[1]
    /\ out_file = Snapshot(all_words, 2)


\* C23: when a publish fails by an exception (the temporary file could not
\* be written, or the rename failed), the file at the published path is the
\* complete snapshot it was before, and the call that merged returns to its
\* caller as after a successful publish.
C23_FailedPublishKeepsFile ==
    [][(write_count' = write_count + 1 /\ alive' /\ tmp_file' # Absent)
          => /\ out_file' = out_file
             /\ IsSnapshot(out_file')
             /\ IsPrefix(out_file'.transcription, all_words')
             /\ \A t \in Tasks :
                   wtask'[t] # wtask[t] => wtask'[t].pc = "idle" /\ wtask'[t].res = "ok"]_vars

\* A publish has failed after an earlier one had published words: the path
\* holds the earlier snapshot, the session list has more words.
C23_Witness ==
    /\ alive
    /\ tmp_file # Absent
    /\ out_file.transcription # <<>>
    /\ out_file = Snapshot(out_file.transcription, write_count - 1)
    /\ Len(all_words) > Len(out_file.transcription)


SentNow == SubSeq(wire', Len(wire) + 1, Len(wire'))

\* The sender has processed one more unit and goes on.
UnitProcessed == unit_no' = unit_no + 1 /\ sres' = "none" /\ spc' = "iter"

\* What C25 says of a step in which a unit is processed, for the flush
\* condition `due` on the pending count after the unit and the time since
\* the last flush.
FlushRule(due(_, _)) ==
    UnitProcessed =>
        \E len \in UnitChars :
            /\ len # 0 <=> Speak(unit_no + 1) \in Range(SentNow)
            /\ IF due(pending_chars + len, since_flush)
               THEN /\ SentNow[Len(SentNow)] = FlushFrame
                    /\ pending_chars' = 0
                    /\ since_flush' = 0
               ELSE /\ FlushFrame \notin Range(SentNow)
                    /\ pending_chars' = pending_chars + len
                    /\ since_flush' = since_flush

ReachedThreshold(pending, since) == pending >= 220 \/ since * 1000 >= 650

ExceededThreshold(pending, since) == pending > 220 \/ since * 1000 > 650

\* C25 (as the code has it): after each unit the sender sends a Flush exactly
\* if the pending character count is at least 220 or the time since the last
\* flush is at least 650 ms; a flush sets the pending count to 0 and the
\* last-flush time to now, and without a flush both stay as they are.
C25_FlushWhenReached == [][FlushRule(ReachedThreshold)]_vars

\* Two units of 110 characters were sent at once: the Flush followed when
\* the pending count reached 220.
C25_Witness ==
    /\ wire = <<Speak(1), Speak(2), FlushFrame>>
    /\ pending_chars = 0
    /\ since_flush = 0
    /\ spc = "iter"

\* C25 as stated: the Flush is sent exactly if a threshold is exceeded.
C25_AsStated == [][FlushRule(ExceededThreshold)]_vars


\* The position of the last Speak frame on the socket, 0 when there is none.
LastSpeak ==
    LET speaks == {i \in 1..Len(wire) : wire[i][1] = "Speak"}
    IN  IF speaks = {} THEN 0 ELSE CHOOSE i \in speaks : \A j \in speaks : j <= i

\* C26: no Speak frame follows a Close frame on the socket.
C26_NoSpeakAfterClose ==
    \A i, j \in 1..Len(wire) : (i < j /\ wire[i] = CloseFrame) => wire[j][1] # "Speak"

\* C26, the end of the text: when a session whose text source was exhausted
\* is over and a Close frame could be sent, the frames after the last Speak
\* frame are Flush frames and then one Close frame.
C26_FlushCloseEndTheText ==
    (rpc = "done" /\ spc = "done" /\ sres = "ok" /\ CloseFrame \in Range(wire))
        => /\ Len(wire) >= LastSpeak + 2
           /\ wire[Len(wire)] = CloseFrame
           /\ \A i \in (LastSpeak + 1)..(Len(wire) - 1) : wire[i] = FlushFrame


\* ======================================================================
\* Claims about the accumulator's lock and buffer, checked under Spec
\* ======================================================================
InFlight == {t \in Tasks : wtask[t].pc = "await"}

SlicesTaken == [i \in 1..Len(submissions) |-> submissions[i].slice]

\* The chunks add_audio_chunk has appended so far, concatenated in order.
Appended == [i \in 1..(next_block - 1) |-> i]

\* C28: taking a slice drains the buffer and resets it in one step: after
\* any interleaving of add_audio_chunk, maybe_update and finalize, the
\* slices taken so far, in the order taken, followed by the current buffer
\* are exactly the chunks appended so far, so every appended block is in
\* one place only, in a slice or in the buffer.
C28_DrainAndReset ==
    /\ Concat(SlicesTaken) \o audio_buffer = Appended
    /\ \A b \in 1..(next_block - 1) :
          Cardinality({i \in 1..Len(submissions) : b \in Range(submissions[i].slice)})
              + (IF b \in Range(audio_buffer) THEN 1 ELSE 0) = 1

\* C28 witness: finalize took a slice, audio was appended while its request
\* was in flight, and maybe_update took the next slice while it still was.
C28_Witness ==
    /\ Len(submissions) = 2
    /\ submissions[1].op = "finalize" /\ submissions[2].op = "maybe_update"
    /\ wtask["tx"].pc = "await" /\ wtask["rx"].pc = "await"
    /\ Len(Appended) = MaxBlocks

\* ======================================================================
\* Claims about the buffer of sentence_chunks
\* ======================================================================
\* `s` is long enough, holds a newline, or ends with a sentence mark and a
\* whitespace character.
MustFlush(s) ==
    \/ Len(s) >= min_chars
    \/ \E i \in 1..Len(s) : s[i] = "\n"
    \/ Len(s) >= 2 /\ s[Len(s) - 1] \in {".", "!", "?"} /\ s[Len(s)] \in {" ", "\n"}

\* C29: the text sentence_chunks keeps buffered after a fragment is shorter
\* than min_chars, has no newline and does not end with a sentence mark
\* followed by whitespace; a buffer that meets one of the three conditions
\* when a fragment is added is emitted trimmed, or dropped when it is all
\* whitespace, and the buffer is empty before the next fragment.
C29_BufferBelowBoundaries ==
    /\ [](~MustFlush(buffer))
    /\ [][LET joined == buffer \o TakenFragment
          IN  (total_tokens_received' = total_tokens_received + 1 /\ MustFlush(joined))
              => /\ buffer' = <<>>
                 /\ IF \A i \in 1..Len(joined) : joined[i] \in Whitespace
                    THEN units' = units
                    ELSE /\ Len(units') = Len(units) + 1
                         /\ SubSeq(units', 1, Len(units)) = units
                         /\ units'[Len(units')].text = Strip(joined)]_vars

\* C29 witness: after a unit was emitted at a boundary, the buffer has been
\* filled again to one character below min_chars and ends with a sentence
\* mark that no whitespace follows.
C29_Witness ==
    /\ cpc = "iter"
    /\ units # <<>>
    /\ units[1].rule = "boundary"
    /\ Len(buffer) = min_chars - 1
    /\ buffer[Len(buffer)] \in SentencePunct
    /\ total_tokens_received >= 3

\* The buffer is flushed in this step: by a fragment that completes a
\* boundary or the elapsed-time rule, or by the end of the input.
FlushStep ==
    \/ total_tokens_received' = total_tokens_received + 1 /\ buffer' = <<>>
    \/ cpc = "iter" /\ cpc' = "done"

\* What the flush of this step had in the buffer.
Flushed == IF cpc' = "done" /\ cpc = "iter" THEN buffer ELSE buffer \o TakenFragment

Blank(s) == \A i \in 1..Len(s) : s[i] \in Whitespace

\* C30: every unit sentence_chunks emits has at least one character and
\* neither starts nor ends with whitespace; a buffer that is all whitespace
\* when it is flushed, by a boundary or by the end of the input, adds no
\* unit, and a flushed buffer that is not all whitespace adds one.
C30_NoBlankUnit ==
    /\ [](\A i \in 1..Len(units) :
            LET u == units[i].text
            IN  /\ Len(u) >= 1
                /\ u[1] \notin Whitespace
                /\ u[Len(u)] \notin Whitespace)
    /\ [][FlushStep =>
            IF Blank(Flushed) THEN units' = units ELSE Len(units') = Len(units) + 1]_vars

\* C30 witness: a buffer of whitespace only was dropped at a newline, a unit
\* was emitted with its surrounding whitespace removed, and the input ended
\* on a buffer of whitespace only, which was dropped too.
C30_Witness ==
    /\ cpc = "done"
    /\ Len(units) = 1
    /\ token_text[1] = " " /\ token_text[2] = "\n"
    /\ Len(units[1].text) < Len(token_text) - 3
    /\ buffer # <<>> /\ Blank(buffer)

\* ======================================================================
\* Claims about the laziness of sentence_chunks
\* ======================================================================
\* C31: sentence_chunks reads its source one fragment at a time; a fragment
\* that brings the buffer to a flush condition has its unit emitted in the
\* step that read it, before another fragment is requested; each fragment
\* adds at most one unit and the end of the input at most one more, so a
\* finite input gives finitely many units and the call ends.
C31_LazyAndFinite ==
    /\ [][total_tokens_received' # total_tokens_received
            => LET joined == buffer \o TakenFragment
               IN  /\ total_tokens_received' = total_tokens_received + 1
                   /\ Len(units') <= Len(units) + 1
                   /\ (MustFlush(joined) /\ ~Blank(joined))
                         => /\ Len(units') = Len(units) + 1
                            /\ units'[Len(units')].text = Strip(joined)]_vars
    /\ [](Len(units) <= total_tokens_received + (IF cpc = "done" THEN 1 ELSE 0))
    /\ <>(cpc = "done")

\* C31 witness: three fragments were read; the unit of the first two was
\* emitted at the newline, before the third was read, and the third was
\* emitted when the input ended.
C31_Witness ==
    /\ cpc = "done"
    /\ total_tokens_received = 3
    /\ Len(units) = 2
    /\ units[1].rule = "boundary" /\ units[2].rule = "final"
    /\ Len(units[1].text) + Len(units[2].text) < Len(token_text)

\* ======================================================================
\* Claims about non-binary frames
\* ======================================================================
\* A non-binary frame arrives in this step.
TextArrives == Len(texts') = Len(texts) + 1

\* What the frame that arrives embeds: an audio block, or 0.
ArrivingPayload == texts'[Len(texts')]

\* The raw loop takes a non-binary frame from the socket in this step.
TextTaken == rpc = "recv" /\ queue # <<>> /\ Head(queue) = 0 /\ queue' = Tail(queue)

\* C32: a non-binary frame neither ends the session nor raises: the
\* generator stays where it is in its loop with no exit cause, the frame's
\* embedded audio block, if it has one, joins the audio frames waiting to be
\* forwarded, and a frame without one is forwarded to nobody and leaves the
\* accumulator as it was.
C32_NonBinaryFrameIgnored ==
    /\ [][TextArrives =>
            /\ rpc' = rpc /\ exit_cause' = exit_cause /\ closed' = closed
            /\ forwarded' = forwarded
            /\ audio_buffer' = audio_buffer /\ submissions' = submissions
            /\ IF ArrivingPayload # 0
               THEN queue' = Append(queue, ArrivingPayload)
               ELSE \A i \in 1..Len(queue') : queue'[i] # 0 => i <= Len(queue) /\ queue[i] = queue'[i]]_vars
    /\ [][TextTaken =>
            /\ rpc' = "recv" /\ exit_cause' = exit_cause /\ closed' = closed
            /\ forwarded' = forwarded
            /\ audio_buffer' = audio_buffer /\ submissions' = submissions]_vars
    /\ [](0 \notin Range(forwarded) /\ 0 \notin Range(Accumulated))

\* C32 witness: in an sdk session the second audio block arrived inside a
\* non-binary message, between two binary frames; all three were forwarded
\* in arrival order and the block is in the accumulator.
C32_Witness ==
    /\ variant = "sdk"
    /\ texts = <<2>>
    /\ forwarded = <<1, 2, 3>>
    /\ 2 \in Range(Accumulated)

\* ======================================================================
\* Claims about the shape of the snapshot
\* ======================================================================
EntryFields == {"word", "start_time", "end_time"}

\* C33: whenever the published path holds a snapshot, its word_count is the
\* number of entries of its transcription list and every entry has the
\* fields word, start_time and end_time and no other; each publish writes
\* the session's whole word list with its length.
C33_CountMatchesEntries ==
    /\ [](IsSnapshot(out_file) =>
            /\ out_file.word_count = Len(out_file.transcription)
            /\ \A i \in 1..Len(out_file.transcription) :
                  DOMAIN out_file.transcription[i] = EntryFields)
    /\ [][out_file' # out_file =>
            /\ out_file'.transcription = all_words'
            /\ out_file'.word_count = Len(all_words')]_vars

\* C33 witness: the constructor published the empty snapshot and two merges
\* followed; the published snapshot counts the words of both.
C33_Witness ==
    /\ write_count = 3
    /\ Len(submissions) = 2
    /\ IsSnapshot(out_file)
    /\ out_file.word_count >= 3
    /\ out_file.transcription = all_words

\* ======================================================================
\* Claims about add_audio_chunk and add_text_chunk
\* ======================================================================
Adds == {"add_audio_chunk", "add_text_chunk"}

\* A call of add_audio_chunk or add_text_chunk is made in this step: a task
\* comes back from one, or the task that made the last one makes another.
AddStep ==
    \/ \E t \in Tasks : wtask'[t] # wtask[t] /\ wtask'[t].op \in Adds
    \/ /\ wtask' = wtask
       /\ \E t \in Tasks : wtask[t].op \in Adds
       /\ audio_buffer' # audio_buffer \/ pending_text_chunks' # pending_text_chunks

\* C34: add_audio_chunk and add_text_chunk only append: the audio buffer
\* and the text-chunk list keep what they had and grow at the end, the
\* cumulative duration does not shrink, and the call submits nothing to
\* recognition and leaves the session word list, the time of the last
\* submission and the published and temporary files as they were.
C34_AddsOnlyAppend ==
    [][AddStep =>
          /\ IsPrefix(audio_buffer, audio_buffer')
          /\ IsPrefix(pending_text_chunks, pending_text_chunks')
          /\ total_audio_duration_ms' =
                total_audio_duration_ms + PcmDurationMs(Len(audio_buffer') - Len(audio_buffer))
          /\ submissions' = submissions
          /\ \A t \in Tasks : wtask'[t].pc = wtask[t].pc
          /\ all_words' = all_words
          /\ time_since_last' = time_since_last
          /\ out_file' = out_file /\ tmp_file' = tmp_file /\ write_count' = write_count
          /\ should_stop' = should_stop]_vars

\* C34 witness: the gate of maybe_update is open (the interval has passed
\* and the buffer holds min_audio_bytes), audio and a text have been added
\* last, and nothing has been submitted or published since construction.
C34_Witness ==
    /\ wtask["rx"].op = "add_audio_chunk"
    /\ wtask["tx"].op = "add_text_chunk"
    /\ Len(audio_buffer) >= min_audio_bytes
    /\ time_since_last >= update_interval
    /\ pending_text_chunks # <<>>
    /\ submissions = <<>>
    /\ out_file = Snapshot(<<>>, 1)

\* ======================================================================
\* Claims about the closed writer
\* ======================================================================
\* C35: once close() has been called on the writer, no call that arrives
\* later, add_audio_chunk, maybe_update or finalize, makes it submit a slice
\* to recognition or publish a snapshot.
C35_ClosedWriterIsQuiet ==
    [][should_stop =>
          /\ submissions' = submissions
          /\ out_file' = out_file
          /\ write_count' = write_count]_vars

\* ======================================================================
\* Claims about the elapsed-time rule of sentence_chunks
\* ======================================================================
\* A unit is emitted in this step.
UnitEmitted == Len(units') = Len(units) + 1

\* C36: a unit is emitted because of elapsed time only in a step that reads
\* a fragment, only when no unit was emitted before it, and only when the
\* buffer with the fragment meets none of the punctuation, newline and
\* length conditions; while the generator waits for a fragment the passing
\* of time emits nothing, and once a unit has been emitted every later unit
\* meets one of the three conditions or is the remainder at the end of the
\* input.
C36_ElapsedRuleOnlyFirst ==
    /\ [][(UnitEmitted /\ cpc' = "iter" /\ ~MustFlush(buffer \o TakenFragment))
            => /\ units = <<>>
               /\ total_tokens_received' = total_tokens_received + 1
               /\ since_first >= first_flush_ms
               /\ units'[1].text = Strip(buffer \o TakenFragment)]_vars
    /\ [][(total_tokens_received' = total_tokens_received /\ cpc' = "iter")
            => units' = units /\ buffer' = buffer]_vars
    /\ [][(UnitEmitted /\ units # <<>>)
            => \/ cpc = "iter" /\ cpc' = "done"
               \/ MustFlush(buffer \o TakenFragment)]_vars

\* C36 witness: a unit was emitted at a newline; since then two fragments
\* have been buffered and first_flush_ms has passed, and no second unit was
\* emitted.
C36_Witness ==
    /\ cpc = "iter"
    /\ Len(units) = 1
    /\ units[1].rule = "boundary"
    /\ total_tokens_received = MaxTokens
    /\ buffer = <<"a", "a">>
    /\ since_first >= first_flush_ms

\* ======================================================================
\* Claims about the texts the sender sends
\* ======================================================================
\* C37: every Speak frame the sender has sent carries a text of at least
\* one character (the text it then handed to add_text_chunk); a unit whose
\* sanitized, trimmed text is empty sends no Speak frame, records no text and
\* leaves the pending count as it was, and a unit that is sent adds the
\* length of its text to the pending count (which the flush that may follow
\* in the same iteration resets to 0).
C37_NoEmptySpeak ==
    /\ [](/\ SpeakIds = [i \in 1..Len(pending_text_chunks) |-> pending_text_chunks[i].unit]
          /\ \A i \in 1..Len(pending_text_chunks) : pending_text_chunks[i].len >= 1)
    /\ [][UnitProcessed =>
            LET sent == Speak(unit_no + 1) \in Range(SentNow)
                flushed == FlushFrame \in Range(SentNow)
                text == pending_text_chunks'[Len(pending_text_chunks')]
            IN  IF sent
                THEN /\ Len(pending_text_chunks') = Len(pending_text_chunks) + 1
                     /\ pending_chars' = IF flushed THEN 0 ELSE pending_chars + text.len
                ELSE /\ pending_text_chunks' = pending_text_chunks
                     /\ pending_chars' = IF flushed THEN 0 ELSE pending_chars]_vars

\* C37 witness: the first unit was empty after sanitizing and sent nothing;
\* the second was sent and its length is the pending count.
C37_Witness ==
    /\ unit_no = 2
    /\ wire = <<Speak(2)>>
    /\ pending_text_chunks = <<[unit |-> 2, len |-> 110]>>
    /\ pending_chars = 110
    /\ spc = "iter"

\* ======================================================================
\* Claims about the time of the last submission
\* ======================================================================
\* A slice is submitted in this step by the call `op`.
Submitted(op) ==
    /\ Len(submissions') = Len(submissions) + 1
    /\ submissions'[Len(submissions')].op = op

\* The periodic submissions made so far.
Periodic == SelectSeq(submissions, LAMBDA s : s.op = "maybe_update")

\* C38: the time since the last submission restarts only in a step in which
\* maybe_update takes a slice, and it restarts at the time of that step's
\* check; otherwise it only grows with the clock: finalize and a
\* maybe_update whose gate fails leave it alone.  A periodic submission
\* needs it to have reached update_interval, so two periodic submissions are
\* at least update_interval apart.
C38_IntervalBetweenUpdates ==
    [][/\ Submitted("maybe_update")
            => time_since_last >= update_interval /\ time_since_last' = 0
       /\ Submitted("finalize") => time_since_last' = time_since_last
       /\ submissions' = submissions
            => \/ time_since_last' = time_since_last
               \/ /\ time_since_last' = time_since_last + 1
                  /\ wtask' = wtask /\ audio_buffer' = audio_buffer]_vars

\* C38 witness: two periodic submissions were made, the clock reached
\* update_interval between them, and it has not reached it again since the
\* second.
C38_Witness ==
    /\ Len(Periodic) = 2
    /\ Len(submissions) = 2
    /\ time_since_last < update_interval
    /\ wtask["rx"].pc = "await"

\* ======================================================================
\* Claims about the LiveTTSCapture event log
\* ======================================================================
\* C39: in the event log of a session the session event is the first line,
\* the speak events carry 0, 1, 2, ... in order, at most one close event is
\* written, exactly one once sender and generator have ended, and no speak,
\* flush or audio event is written after the close event.
C39_EventLogOrdered ==
    /\ capture.first = "session"
    /\ capture.speaks = Len(SpeakIds)
    /\ capture.closes <= 1
    /\ (rpc = "done" /\ spc = "done") => capture.closes = 1
    /\ capture.late = {}

====
